---- MODULE Spec2Model ----
(***************************************************************************)
(* Crawl-and-index pipeline of services/crawl4ai-runner.                   *)
(*                                                                         *)
(* Spec       one crawl job of CrawlingService: the orchestration task     *)
(*            (_async_orchestrate_crawl, sequential and hybrid topology),  *)
(*            its progress state, _store_chunks and cancel().              *)
(*                                                                         *)
(* EmbedSpec  one call of the embedding router (_embed_chunks) with its    *)
(*            three strategies and the requests of EmbeddingMonsterClient. *)
(*                                                                         *)
(* DiscSpec   one call of DiscoveryService.discover_files: candidate       *)
(*            probes, redirects, nested sitemaps, the HTML fallback.       *)
(*                                                                         *)
(* StoreSpec  _store_chunks of the same job run twice against the same     *)
(*            relational store, point store and canonical chunks table.    *)
(*                                                                         *)
(* RecSpec    one call of crawl_recursive_with_progress: depth levels,     *)
(*            batches, streamed results, the page cap, the cancel flag.    *)
(*                                                                         *)
(* CancelSpec the crawl job, or a call of the recursive strategy, under    *)
(*            cancellation.                                                *)
(*                                                                         *)
(* ApiSpec    POST /crawl and GET /progress over the registry of jobs.     *)
(*                                                                         *)
(* ScopeSpec  ScopeManager.resolve_scope over its argument space.          *)
(*                                                                         *)
(* One action is one step of the orchestration coroutine between two       *)
(* suspension points (awaits); cancel() is a step of another task of the   *)
(* same event loop and may run between any two of them.                    *)
(***************************************************************************)
EXTENDS Integers, Sequences, FiniteSets, TLC

\* ------------------------------------------------------------- bounds
\* Number of URLs handed to the crawl (len(crawl_urls)) is 1..MaxUrls.
MaxUrls == 3
\* Largest number of chunks the chunking stage yields for one batch of pages.
MaxChunks == 2
\* HYBRID_PROCESS_BATCH (crawling_service.py:59, environment, default 10),
\* scaled so that a job of MaxUrls URLs runs more than one hybrid batch.
HYBRID_PROCESS_BATCH == 2

Max(a, b) == IF a > b THEN a ELSE b
Min(a, b) == IF a < b THEN a ELSE b

\* int(k * x / y) of the source for non-negative operands (the quotients of
\* the model's operands are exact in binary floating point after truncation).
Pct(k, x, y) == (k * x) \div y

VARIABLES
    ctx,    \* CrawlRequestContext and module configuration of the job
    job,    \* ProgressState, the orchestration task's frame, history
    emb,    \* one call of the embedding router _embed_chunks
    disc,   \* one call of DiscoveryService.discover_files
    sto,    \* the three chunk stores over repeated runs of one job
    rec,    \* one call of crawl_recursive_with_progress
    api,    \* the registry of CrawlingService behind the HTTP handlers
    scope,  \* one call of ScopeManager.resolve_scope
    chk,    \* a SmartChunker and one chunk_text call
    page,   \* a crawl_single_page call
    bat,    \* a crawl_batch_with_progress call
    mgr,    \* a CrawlerManager and the callers of initialize
    meta,   \* the datasets table of the canonical metadata store
    svc,    \* the shared DiscoveryService and the discover_files calls of two jobs
    pipe,   \* a StreamingPipeline in run()
    mapper  \* a ProgressMapper and its last call

vars == <<ctx, job, emb, disc, sto, rec, api, scope, chk, page, bat, mgr, meta, svc, pipe, mapper>>

\* What a step of the orchestration task leaves alone.
NotJob == <<ctx, emb, disc, sto, rec, api, scope, chk, page, bat, mgr, meta, svc, pipe, mapper>>

Modes == {"single", "batch", "recursive"}

\* ------------------------------------------------------- progress state
\* Mutant of update_progress: the new value is stored without the max.
update_progress_overwrite(cur, new) == new

\* _update_progress, the `progress` keyword: state.progress = max(old, new).
update_progress(cur, new) == IF new > cur THEN new ELSE cur

\* _update_progress(progress_id, progress=v); `proposed` remembers v.
UP(j, v) == [j EXCEPT !.progress = update_progress(@, v), !.proposed = v]

\* "Update progress only on percentage change" of the stage loops.
ReportPct(j, pct) ==
    IF pct # j.last_progress_percentage
    THEN UP([j EXCEPT !.last_progress_percentage = pct], pct)
    ELSE j

\* ------------------------------------------------ ends of the coroutine
\* finally: self._tasks.pop(progress_id)
Finish(j) == [j EXCEPT !.in_tasks = FALSE, !.pc = "done"]

\* Mutant of Completed: the final call passes the status without progress=100.
Completed_StatusOnly(j) == Finish([j EXCEPT !.status = "completed"])

\* _update_progress(progress=100, status="completed") and the finally block.
Completed(j) == Finish([UP(j, 100) EXCEPT !.status = "completed"])

\* except Exception: _update_progress(status="failed", log=str(exc)).
Failed(j) == Finish([j EXCEPT !.status = "failed"])

\* except asyncio.CancelledError: _update_progress(status="cancelled"); raise.
Cancelled(j) == Finish([j EXCEPT !.status = "cancelled", !.must_cancel = FALSE])

\* ------------------------------------------------------- tail stages
\* History: a tail stage raised (which stages, and in which hybrid batch the
\* first one did).
Raised(j, stage) ==
    [j EXCEPT !.tail_exc = @ \cup {stage}, !.clean = FALSE,
              !.exc_batch = IF j.tail_exc = {} THEN j.batches ELSE @]

\* Stage outcomes the environment decides: the chunker's result (k chunks, or
\* an exception after `at` documents), the summary stage's path.
ChunkOutcomes(nd) ==
    {[ok |-> TRUE, k |-> k, at |-> nd] : k \in 0..MaxChunks}
        \cup {[ok |-> FALSE, k |-> 0, at |-> a] : a \in 0..(nd - 1)}

SummOutcomes == {"ok", "no_provider", "raise"}

\* batch_size = 10 of _summarize_chunks
SUMMARY_BATCH == 10

RECURSIVE ChunkLoop(_, _, _)
\* for doc_idx, doc in enumerate(documents): chunk, then report 60..70.
ChunkLoop(j, i, upto) ==
    IF i > upto THEN j
    ELSE ChunkLoop(ReportPct(j, 60 + Pct(10, i, j.ndocs)), i + 1, upto)

\* _chunk_documents: `completed` documents are chunked before it returns
\* (completed = ndocs) or raises (completed < ndocs). It never suspends.
ChunkDocuments(j, completed) ==
    ChunkLoop(UP([j EXCEPT !.last_progress_percentage = 60], 60), 1, completed)

RECURSIVE SummLoop(_, _)
\* for i in range(0, len(chunks), batch_size): summaries of one batch, then
\* report 70..80.
SummLoop(j, i) ==
    IF i >= j.nchunks THEN j
    ELSE SummLoop(ReportPct(j, 70 + Pct(10, Min(i + SUMMARY_BATCH, j.nchunks), j.nchunks)),
                  i + SUMMARY_BATCH)

\* _summarize_chunks for a non-empty chunk list: one summary per chunk, from
\* the provider loop or, when the provider cannot be built, the prefix
\* fallback; "raise" is an exception escaping the stage.
SummarizeChunks(j, so) ==
    LET j0 == UP([j EXCEPT !.last_progress_percentage = 70], 70)
    IN  CASE so = "ok"          -> [SummLoop(j0, 0) EXCEPT !.nsumm = j.nchunks]
          [] so = "no_provider" -> [j0 EXCEPT !.nsumm = j.nchunks]
          [] OTHER              -> j0

\* _embed_chunks up to its first request: reset counters, report 80.
EmbedBegin(j) == UP([j EXCEPT !.last_progress_percentage = 80], 80)

\* return postgres_count + qdrant_count if qdrant_count > 0 else postgres_count
store_result(pg, qd) == IF qd > 0 THEN pg + qd ELSE pg

\* _store_chunks up to its first await (CanonicalMetadataStore.initialize).
StoreBegin(j) ==
    [UP([j EXCEPT !.last_progress_percentage = 92], 92) EXCEPT
        !.pc = "st_meta", !.canon_ok = FALSE, !.stored = 0,
        !.pg_ok = FALSE, !.qd_ok = FALSE,
        !.postgres_count = 0, !.qdrant_count = 0, !.ret = 0,
        !.store_failed = {}, !.pg_attempted = FALSE, !.qd_attempted = FALSE,
        !.canon_written = FALSE]

\* ------------------------------------------------------ hybrid topology
\* Head of `for batch_start in range(0, total_urls, HYBRID_PROCESS_BATCH)`:
\* leave the loop when the range is exhausted or the cancel flag is set
\* (then "Hybrid processing complete", 98, and the final 100/completed),
\* else report the crawl progress and dispatch the batch.
LoopHead(j) ==
    IF j.batch_start >= ctx.n \/ j.cancel_event
    THEN Completed(UP(j, 98))
    ELSE [UP(j, 20 + Pct(40, j.batch_start, ctx.n)) EXCEPT
            !.pc = "h_crawl", !.batches = @ + 1]

\* `continue`, or the end of the loop body: next batch_start.
NextBatch(j) == LoopHead([j EXCEPT !.batch_start = @ + HYBRID_PROCESS_BATCH])

\* except Exception: "Batch chunking failed" -> continue
HybChunkRaised(j) ==
    NextBatch(Raised(j, "chunking"))

\* Mutant of HybEmbedRaised: no handler around the batch's embedding call,
\* the exception reaches the top-level handler of the job.
HybEmbedRaised_Propagates(j) == Failed(Raised(j, "embedding"))

\* except Exception: "Batch embedding failed" -> continue
HybEmbedRaised(j) ==
    NextBatch([Raised(j, "embedding") EXCEPT
                 !.emb_raised = @ + j.nchunks, !.emb_pending = j.nchunks])

\* Phase 5 of a batch: report 82..98, enter _store_chunks.
HybStore(j) == StoreBegin(UP(j, 82 + Pct(16, j.processed_count, ctx.n)))

\* The batch body from the return of _execute_crawl_batch (d pages) to the
\* first suspension after it.
HybAfterCrawl(j, d, co) ==
    LET j1 == [j EXCEPT !.processed_count = @ + d, !.ndocs = d,
                        !.processed_pages = j.processed_count + d,
                        !.nchunks = 0, !.nsumm = 0, !.nemb = 0, !.emb_pending = 0,
                        !.clean = @ /\ d = Min(HYBRID_PROCESS_BATCH, ctx.n - j.batch_start)]
        j2 == UP(j1, 60 + Pct(10, j1.processed_count, ctx.n))
        j3 == [ChunkDocuments(j2, co.at) EXCEPT
                 !.nchunks = co.k, !.nsumm = co.k,
                 !.chunks_produced = @ + co.k]
        j4 == EmbedBegin(UP(j3, 70 + Pct(12, j3.processed_count, ctx.n)))
    IN  IF d = 0 THEN NextBatch(j1)
        ELSE IF ~co.ok THEN HybChunkRaised(ChunkDocuments(j2, co.at))
        ELSE IF co.k = 0 THEN HybStore(UP(j4, 92))
        ELSE [j4 EXCEPT !.pc = "h_embed"]

\* -------------------------------------------------- sequential topology
\* Phase 7: store when chunks, summaries and embeddings are all non-empty,
\* else "Skipped storage (no valid data)"; then the final 100/completed.
SeqStorage(j) ==
    IF j.nchunks > 0 /\ j.nsumm > 0 /\ j.nemb > 0
    THEN StoreBegin(j)
    ELSE Completed(UP(j, 98))

\* except Exception: "Embedding failed" -> embeddings = [], report 92
SeqEmbedRaised(j) ==
    SeqStorage(UP([Raised(j, "embedding") EXCEPT
                     !.nemb = 0,
                     !.emb_raised = @ + j.nchunks, !.emb_pending = j.nchunks], 92))

\* except Exception: "Chunking failed, using fallback" -> chunks = [], 70
SeqChunkRaised(j) ==
    UP([Raised(j, "chunking") EXCEPT !.nchunks = 0], 70)

\* except Exception: "Summarization failed, using fallback" -> prefixes, 80
SeqSummRaised(j) ==
    UP([Raised(j, "summarization") EXCEPT !.nsumm = j.nchunks], 80)

\* From the return of _execute_crawl (j.ndocs pages) to the first suspension
\* after it: state.documents = documents, "Crawling complete" 60, chunking,
\* summarization, and the start of the embedding stage.
SeqAfterCrawl(j, co, so) ==
    LET j0 == UP([j EXCEPT !.documents = j.ndocs], 60)
        j1 == IF co.ok
              THEN [ChunkDocuments(j0, co.at) EXCEPT
                      !.nchunks = co.k, !.chunks_produced = @ + co.k]
              ELSE SeqChunkRaised(ChunkDocuments(j0, co.at))
        j2 == IF so = "raise"
              THEN SeqSummRaised(SummarizeChunks(j1, so))
              ELSE SummarizeChunks(j1, so)
    IN  IF j.ndocs = 0 \/ ~ctx.scoped THEN Completed(j0)
        ELSE IF j1.nchunks = 0 THEN SeqStorage(j1)
        ELSE [EmbedBegin(j2) EXCEPT !.pc = "s_embed"]

\* progress_callback(done, total, url) of _execute_crawl
progress_callback(j, done, total) ==
    UP([j EXCEPT !.processed_pages = done, !.total_pages = total],
       20 + Pct(40, done, Max(1, total)))

\* ---------------------------------------------------------- the job
\* PROCESSING_MODE == "hybrid" and (ctx.project or ctx.dataset)
Hybrid == ctx.processing_mode = "hybrid" /\ ctx.scoped

\* ProgressState() and the task's frame as orchestrate_crawl creates them.
NewJob ==
    [status |-> "running", progress |-> 0, proposed |-> 0,
      chunks_stored |-> 0, processed_pages |-> 0, total_pages |-> 0,
      cancel_event |-> FALSE, last_progress_percentage |-> 0,
      pc |-> "unstarted", must_cancel |-> FALSE, in_tasks |-> TRUE,
      batch_start |-> 0, processed_count |-> 0,
      done |-> 0, rec_done |-> 0, rec_total |-> 0,
      ndocs |-> 0, nchunks |-> 0, nsumm |-> 0, nemb |-> 0,
      documents |-> 0,            \* len(state.documents)
      canon_ok |-> FALSE, stored |-> 0, pg_ok |-> FALSE, qd_ok |-> FALSE,
      postgres_count |-> 0, qdrant_count |-> 0, ret |-> 0,
      \* history of the run
      tail_exc |-> {}, exc_batch |-> 0, clean |-> TRUE,
      emb_raised |-> 0, emb_pending |-> 0, fallback_stored |-> 0,
      \* of the current _store_chunks call: the stores that raised, and
      \* whether insert_chunks of each store was called
      store_failed |-> {}, pg_attempted |-> FALSE, qd_attempted |-> FALSE,
      \* and whether upsert_chunks wrote its chunks to the canonical table
      canon_written |-> FALSE,
      chunks_produced |-> 0, batches |-> 0,
      cancelled_running |-> FALSE]

\* State right after orchestrate_crawl returned the id: the ProgressState is
\* registered, the task is created and has not run yet.
JobInit ==
    /\ ctx \in [processing_mode : {"hybrid", "sequential"},
                scoped : BOOLEAN,          \* ctx.project or ctx.dataset
                auto_discovery : BOOLEAN,
                mode : Modes,
                follow : BOOLEAN,          \* max_depth > 1 and include_links
                n : 1..MaxUrls]            \* len(crawl_urls)
    /\ ctx.follow => (ctx.mode = "batch" /\ ~Hybrid)
    /\ job = NewJob

\* The task is suspended at await point p and no cancellation is pending.
Running(p) == job.pc = p /\ ~job.must_cancel

\* First step of the task. A task cancelled before its first step gets the
\* CancelledError thrown into the coroutine before its body: no line of
\* _async_orchestrate_crawl runs, neither the except nor the finally clause.
TaskStart ==
    /\ job.pc = "unstarted"
    /\ job' = IF job.must_cancel
              THEN [job EXCEPT !.pc = "dead", !.must_cancel = FALSE]
              ELSE [job EXCEPT !.pc = "init"]
    /\ UNCHANGED NotJob

\* await self.crawler.initialize()
InitDone ==
    /\ Running("init")
    /\ \E ok \in BOOLEAN :
         job' = IF ~ok THEN Failed(job)
                ELSE IF ctx.auto_discovery
                     THEN [UP(job, 5) EXCEPT !.pc = "discover"]
                     ELSE [job EXCEPT !.pc = "determine"]
    /\ UNCHANGED NotJob

\* await self.discovery.discover_files(urls)
DiscoverDone ==
    /\ Running("discover")
    /\ \E ok \in BOOLEAN :
         job' = IF ok THEN [UP(job, 15) EXCEPT !.pc = "determine"]
                ELSE Failed(job)
    /\ UNCHANGED NotJob

\* _execute_crawl up to its first await.
ExecuteCrawl(j) ==
    IF ctx.mode = "single" \/ ctx.n = 1 THEN [j EXCEPT !.pc = "s_single"]
    ELSE IF ctx.mode = "recursive"
         THEN [progress_callback(j, 0, ctx.n) EXCEPT
                 !.pc = "s_rec", !.rec_done = 0, !.rec_total = ctx.n]
         ELSE [j EXCEPT !.pc = "s_batch", !.done = 0]

\* await self._determine_urls(...), "Starting crawl" 20, topology switch.
DetermineDone ==
    /\ Running("determine")
    /\ \E ok \in BOOLEAN :
         LET j0 == UP([job EXCEPT !.total_pages = ctx.n], 20)
         IN  job' = IF ~ok THEN Failed(job)
                    ELSE IF Hybrid THEN LoopHead(j0)
                    ELSE ExecuteCrawl(j0)
    /\ UNCHANGED NotJob

\* mode SINGLE or one URL: await crawl_single_page(...), which raises
\* SinglePageError after its attempts.
SingleDone ==
    /\ Running("s_single")
    /\ \E ok \in BOOLEAN, co \in ChunkOutcomes(1), so \in SummOutcomes :
         job' = IF ok
                THEN SeqAfterCrawl(progress_callback([job EXCEPT !.ndocs = 1], 1, 1),
                                   co, so)
                ELSE Failed(job)
    /\ UNCHANGED NotJob

\* crawl_batch_with_progress: one URL completes (page or absorbed failure).
BatchPageDone ==
    /\ Running("s_batch")
    /\ job.done < ctx.n
    /\ \E ok \in BOOLEAN :
         job' = progress_callback(
                  [job EXCEPT !.done = @ + 1,
                              !.ndocs = IF ok THEN @ + 1 ELSE @,
                              !.clean = @ /\ ok],
                  job.done + 1, ctx.n)
    /\ UNCHANGED NotJob

\* gather returned: the batch results, then the recursive follow-up when
\* max_depth > 1 and include_links, else the tail stages.
BatchReturn ==
    /\ Running("s_batch")
    /\ job.done = ctx.n
    /\ \E co \in ChunkOutcomes(job.ndocs), so \in SummOutcomes :
         job' = IF ctx.follow
                THEN [progress_callback(job, 0, job.ndocs) EXCEPT
                        !.pc = "s_rec", !.rec_done = 0, !.rec_total = job.ndocs]
                ELSE SeqAfterCrawl(job, co, so)
    /\ UNCHANGED NotJob

\* crawl_recursive_with_progress reports (total_processed, total_discovered)
\* at each depth start, batch start and depth end; both only grow.
RecCallback ==
    /\ Running("s_rec")
    /\ \E t \in job.rec_total..(MaxUrls + 1) :
       \E d \in job.rec_done..t :
         job' = progress_callback([job EXCEPT !.rec_done = d, !.rec_total = t], d, t)
    /\ UNCHANGED NotJob

\* crawl_recursive_with_progress returns r pages after its final report.
RecReturn ==
    /\ Running("s_rec")
    /\ \E r \in 0..job.rec_done :
       \E co \in ChunkOutcomes(job.ndocs + r), so \in SummOutcomes :
         job' = SeqAfterCrawl(
                  progress_callback([job EXCEPT !.ndocs = @ + r],
                                    job.rec_done, job.rec_total),
                  co, so)
    /\ UNCHANGED NotJob

\* sequential: await self._embed_chunks(progress_id, chunks)
SeqEmbedDone ==
    /\ Running("s_embed")
    /\ \E ok \in BOOLEAN :
         job' = IF ok THEN SeqStorage(UP([job EXCEPT !.nemb = job.nchunks], 92))
                ELSE SeqEmbedRaised(job)
    /\ UNCHANGED NotJob

\* hybrid: await self._execute_crawl_batch(batch_urls, cancel_event); page
\* failures are absorbed, d pages come back.
HCrawlDone ==
    /\ Running("h_crawl")
    /\ \E d \in 0..Min(HYBRID_PROCESS_BATCH, ctx.n - job.batch_start) :
       \E co \in ChunkOutcomes(d) :
         job' = HybAfterCrawl(job, d, co)
    /\ UNCHANGED NotJob

\* hybrid: await self._embed_chunks(progress_id, batch_chunks)
HEmbedDone ==
    /\ Running("h_embed")
    /\ \E ok \in BOOLEAN :
         job' = IF ok THEN HybStore(UP([job EXCEPT !.nemb = job.nchunks], 92))
                ELSE HybEmbedRaised(job)
    /\ UNCHANGED NotJob

\* ------------------------------------------------------ _store_chunks
\* _store_chunks returned `ret` to the orchestrator.
StoreReturned(j) ==
    IF Hybrid
    THEN NextBatch([j EXCEPT !.chunks_stored = @ + j.ret])
    ELSE Completed(UP([j EXCEPT !.chunks_stored = j.ret], 98))

\* An exception left _store_chunks: "Storage failed" / "Batch storage failed".
StoreRaised(j) ==
    LET j0 == Raised(j, "storage")
    IN  IF Hybrid THEN NextBatch(j0) ELSE Completed(UP(j0, 98))

\* Canonical store: initialize, upsert_web_pages, upsert_chunks. A failure
\* of the first two drops the metadata store, one of upsert_chunks keeps it.
MetaDone ==
    /\ Running("st_meta")
    /\ \E out \in {"ok", "pages_failed", "chunks_failed"} :
         job' = [job EXCEPT !.pc = "st_init",
                            !.canon_ok = (out # "pages_failed"),
                            !.canon_written = (out = "ok"),
                            !.clean = @ /\ out = "ok"]
    /\ UNCHANGED NotJob

\* postgres_store.initialize(), qdrant_store.initialize(),
\* create_chunks_collection and create_collection, in one try block with the
\* StoredChunk list (one per chunk/summary/embedding triple with a vector)
\* and "Inserting into Postgres" 94. An exception of either store here
\* reaches the outer handler: return 0.
StoreInitDone ==
    /\ Running("st_init")
    /\ \E out \in {"ok", "postgres", "qdrant"} :
         job' = IF out = "ok"
                THEN [ReportPct([job EXCEPT
                          !.stored = Min(job.nchunks, Min(job.nsumm, job.nemb)),
                          !.fallback_stored = @ + Min(job.emb_pending, job.nemb)], 94)
                      EXCEPT !.pc = "st_pg"]
                ELSE [Raised(job, "storage") EXCEPT
                        !.pc = "st_close", !.ret = 0, !.store_failed = {out}]
    /\ UNCHANGED NotJob

\* postgres_store.insert_chunks, then "Inserting into Qdrant" 96.
PgInsertDone ==
    /\ Running("st_pg")
    /\ \E ok \in BOOLEAN :
         job' = [ReportPct([(IF ok THEN job ELSE Raised(job, "storage")) EXCEPT
                     !.postgres_count = IF ok THEN job.stored ELSE 0,
                     !.pg_ok = ok, !.pg_attempted = TRUE,
                     !.store_failed = IF ok THEN @ ELSE @ \cup {"postgres"}], 96)
                 EXCEPT !.pc = "st_qd"]
    /\ UNCHANGED NotJob

\* qdrant_store.insert_chunks, then the second canonical upsert when the
\* metadata store is still there, and the return value.
QdInsertDone ==
    /\ Running("st_qd")
    /\ \E ok \in BOOLEAN :
         LET qd == IF ok THEN job.stored ELSE 0
         IN  job' = [(IF ok THEN job ELSE Raised(job, "storage")) EXCEPT
                       !.qdrant_count = qd,
                       !.qd_ok = ok, !.qd_attempted = TRUE,
                       !.store_failed = IF ok THEN @ ELSE @ \cup {"qdrant"},
                       !.ret = store_result(job.postgres_count, qd),
                       !.pc = IF job.canon_ok THEN "st_canon" ELSE "st_close"]
    /\ UNCHANGED NotJob

\* metadata_store.upsert_chunks (second call); its failure is logged.
CanonDone ==
    /\ Running("st_canon")
    /\ \E ok \in BOOLEAN :
         job' = [job EXCEPT !.pc = "st_close", !.clean = @ /\ ok,
                            !.canon_written = @ \/ ok]
    /\ UNCHANGED NotJob

\* finally: close the stores; then the return, or the exception of close().
CloseDone ==
    /\ Running("st_close")
    /\ \E ok \in BOOLEAN :
         job' = IF ok THEN StoreReturned(job) ELSE StoreRaised(job)
    /\ UNCHANGED NotJob

\* --------------------------------------------------------- cancellation
\* Mutant of cancel: cancel() writes the status itself.
cancel_marks_cancelled(j) ==
    [j EXCEPT !.cancel_event = TRUE, !.status = "cancelled",
              !.cancelled_running = @ \/ j.status = "running"]

\* cancel(progress_id) on a registered job: the ProgressState after it.
\* cancelled_running is history: a cancel came while the job was running.
cancel(j) ==
    [j EXCEPT !.cancel_event = TRUE,
              !.must_cancel = @ \/ (j.in_tasks /\ j.pc \notin {"done", "dead"}),
              !.cancelled_running = @ \/ j.status = "running"]

\* cancel(progress_id): set the flag; task.cancel() when the task is still
\* registered (a finished task ignores it).
Cancel ==
    /\ job' = cancel(job)
    /\ UNCHANGED NotJob

\* The CancelledError arrives at the await the task is suspended at; no
\* handler of the tail stages catches it (they catch Exception).
CancelDeliver ==
    /\ job.must_cancel
    /\ job.pc \notin {"unstarted", "done", "dead"}
    /\ job' = Cancelled(job)
    /\ UNCHANGED NotJob

JobNext ==
    \/ TaskStart \/ InitDone \/ DiscoverDone \/ DetermineDone
    \/ SingleDone \/ BatchPageDone \/ BatchReturn \/ RecCallback \/ RecReturn
    \/ SeqEmbedDone \/ HCrawlDone \/ HEmbedDone
    \/ MetaDone \/ StoreInitDone \/ PgInsertDone \/ QdInsertDone
    \/ CanonDone \/ CloseDone
    \/ Cancel \/ CancelDeliver

\* ------------------------------------------------------ HTTP handlers
\* self._states.get(progress_id) over a registry of ProgressStates.
Unknown == [status |-> "unknown", documents |-> 0]

get_progress(states, progress_id) ==
    IF progress_id \in DOMAIN states THEN states[progress_id] ELSE Unknown

\* GET /result/{progress_id}: the status code and, for 200, total_pages =
\* len(pages), one page per entry of state.documents.
get_result(states, progress_id) ==
    LET state == get_progress(states, progress_id)
    IN  IF state = Unknown THEN [code |-> 404, total_pages |-> 0]
        ELSE IF state.status # "completed" THEN [code |-> 409, total_pages |-> 0]
        ELSE [code |-> 200, total_pages |-> state.documents]

\* self._states while the one job of Spec is registered.
JobStates == [progress_id \in {"job"} |-> job]

\* Several jobs behind POST /crawl and GET /progress: the registry
\* self._states, the running tasks self._tasks, and the answer to the last
\* request. A job's pipeline is reduced to the end of its task.
MaxRequests == 3

\* uuid.uuid4().hex draws an id no job has yet.
ProgressIds == 1..MaxRequests

\* ProgressState()
NewState == [status |-> "running", documents |-> 0]

NewApi ==
    [states |-> [progress_id \in {} |-> Unknown], tasks |-> {},
     requests |-> 0,
     last |-> [op |-> "none", urls |-> 0, code |-> 0, progress_id |-> 0,
               status |-> ""]]

ApiIdle == [NewApi EXCEPT !.requests = MaxRequests]

NotApi == <<ctx, job, emb, disc, sto, rec, scope, chk, page, bat, mgr, meta, svc, pipe, mapper>>

\* Mutant of Register: the state is not put into the registry.
Register_Dropped(states, progress_id) == states

\* self._states[progress_id] = state
Register(states, progress_id) == states @@ (progress_id :> NewState)

\* orchestrate_crawl: the state is registered and the task created under
\* the lock, which no holder keeps across a suspension.
orchestrate_crawl(a, progress_id) ==
    [a EXCEPT !.states = Register(@, progress_id),
              !.tasks = @ \cup {progress_id}]

\* POST /crawl with a list of urls URLs.
Crawl ==
    /\ api.requests < MaxRequests
    /\ \E urls \in 0..MaxUrls :
         IF urls = 0
         THEN api' = [api EXCEPT
                        !.requests = @ + 1,
                        !.last = [op |-> "crawl", urls |-> urls, code |-> 400,
                                  progress_id |-> 0, status |-> ""]]
         ELSE \E progress_id \in ProgressIds \ DOMAIN api.states :
                api' = [orchestrate_crawl(api, progress_id) EXCEPT
                          !.requests = @ + 1,
                          !.last = [op |-> "crawl", urls |-> urls,
                                    code |-> 200,
                                    progress_id |-> progress_id,
                                    status |-> "running"]]
    /\ UNCHANGED NotApi

\* GET /progress/{progress_id}
GetProgress ==
    /\ api.requests < MaxRequests
    /\ \E progress_id \in ProgressIds :
         LET state == get_progress(api.states, progress_id)
         IN  api' = [api EXCEPT
                       !.requests = @ + 1,
                       !.last = [op |-> "progress", urls |-> 0,
                                 code |-> IF state = Unknown THEN 404 ELSE 200,
                                 progress_id |-> progress_id,
                                 status |-> state.status]]
    /\ UNCHANGED NotApi

\* The task of a job ends: the final status is written and the task leaves
\* self._tasks; the state stays registered.
TaskEnds ==
    /\ \E progress_id \in api.tasks :
       \E status \in {"completed", "failed", "cancelled"} :
       \E documents \in 0..1 :
         api' = [api EXCEPT
                   !.states[progress_id] =
                       [status |-> status,
                        documents |-> IF status = "cancelled" THEN 0
                                      ELSE documents],
                   !.tasks = @ \ {progress_id}]
    /\ UNCHANGED NotApi

ApiNext == Crawl \/ GetProgress \/ TaskEnds

\* ======================================================= embedding router
\* Longest chunk list handed to _embed_chunks.
MaxLen == 4
\* EmbeddingMonsterClient.batch_size (embedding_monster_client.py:25,
\* default 32), scaled so that a list of MaxLen chunks needs several batches.
EMBED_BATCH == 2
\* EmbeddingMonsterClient.retries
RETRIES == 3
\* [0.0] * 768 of the failed-batch handler
ZERO_DIM == 768
\* EmbeddingMonsterClient.dimension: what both model services return
DIMENSION == 768

Hints == {"gte", "coderank"}
Texts == {"a", "b"}

\* embeddings = [None] * len(chunks)
None == [dim |-> 0, of |-> <<"None">>]
\* [0.0] * 768
ZeroVector == [dim |-> ZERO_DIM, of |-> <<"zero">>]
\* The vector the service of `model` computes for `text`.
Vec(model, text) == [dim |-> DIMENSION, of |-> <<model, text>>]

Take(s, n) == SubSeq(s, 1, Min(n, Len(s)))
Drop(s, n) == SubSeq(s, Min(n, Len(s)) + 1, Len(s))

RECURSIVE Select(_, _, _)
\* [(i, chunk) for i, chunk in enumerate(chunks) if chunk.model_hint == hint]
Select(chunks, hint, i) ==
    IF i > Len(chunks) THEN <<>>
    ELSE (IF chunks[i].model_hint = hint THEN <<i>> ELSE <<>>)
             \o Select(chunks, hint, i + 1)

\* embed_batch(texts, model) as it starts: texts are those of the chunks at
\* `batch`; an empty list returns [] without a request.
NewCall(model, batch) ==
    [model |-> model, batch |-> batch, i |-> 0, attempt |-> 1, acc |-> <<>>,
     result |-> IF batch = <<>> THEN "ok" ELSE "pending",
     \* of the current sub-batch: POSTs issued, asyncio.sleep delays taken,
     \* and whether _request_embeddings is in such a sleep
     requests |-> 0, slept |-> <<>>, sleeping |-> FALSE]

\* Mutant of Scatter: the k-th vector of a result goes to position k.
Scatter_Dense(embeddings, batch, result) ==
    [p \in 1..Len(embeddings) |->
        IF p <= Min(Len(batch), Len(result)) THEN result[p] ELSE embeddings[p]]

\* for (idx, _), emb in zip(batch, result): embeddings[idx] = emb
Scatter(embeddings, batch, result) ==
    [p \in 1..Len(embeddings) |->
        IF \E k \in 1..Min(Len(batch), Len(result)) : batch[k] = p
        THEN result[CHOOSE k \in 1..Min(Len(batch), Len(result)) : batch[k] = p]
        ELSE embeddings[p]]

\* Mutant of ZeroFill: a failed batch is logged and its positions are left.
ZeroFill_Skip(embeddings, batch) == embeddings

\* for idx, _ in batch: embeddings[idx] = [0.0] * 768
ZeroFill(embeddings, batch) ==
    [p \in 1..Len(embeddings) |->
        IF \E k \in 1..Len(batch) : batch[k] = p THEN ZeroVector
        ELSE embeddings[p]]

\* sum(1 for e in embeddings if e is not None)
Generated(embeddings) ==
    Cardinality({p \in 1..Len(embeddings) : embeddings[p] # None})

\* The history of a request that failed for good: its positions.
Positions(batch) == {batch[k] : k \in 1..Len(batch)}

NoCall == [model |-> "gte", batch |-> <<>>, i |-> 0, attempt |-> 0, acc |-> <<>>,
           result |-> "none", requests |-> 0, slept |-> <<>>, sleeping |-> FALSE]

\* State of the router when _embed_chunks is called with `chunks`.
NewEmb(chunks, parallel) ==
    [chunks |-> chunks, parallel |-> parallel, pc |-> "start",
     strategy |-> "none", embeddings |-> <<>>,
     gte_queue |-> <<>>, coderank_queue |-> <<>>,
     tasks |-> [m \in Hints |-> NoCall], round_num |-> 0,
     embeddings_generated |-> 0, last_progress_percentage |-> 0, progress |-> 70,
     \* history: positions whose request failed for good
     failed |-> {}]

\* State of the router outside a call.
EmbIdle == [NewEmb(<<>>, FALSE) EXCEPT !.pc = "idle"]

\* Progress report of the embedding loops: only on percentage change.
EmbReport(e, pct) ==
    IF pct # e.last_progress_percentage
    THEN [e EXCEPT !.last_progress_percentage = pct,
                   !.progress = update_progress(@, pct)]
    ELSE e

\* Mutant of PrepareRound: a round cuts a batch for one model only, GTE
\* while its queue is non-empty and CodeRank after that.
PrepareRound_OneModel(e) ==
    IF e.gte_queue = <<>> /\ e.coderank_queue = <<>>
    THEN [e EXCEPT !.pc = "returned", !.tasks = [m \in Hints |-> NoCall]]
    ELSE LET only == IF e.gte_queue # <<>> THEN "gte" ELSE "coderank"
         IN  [e EXCEPT
                !.round_num = @ + 1,
                !.tasks = [m \in Hints |->
                             LET q == IF m = "gte" THEN e.gte_queue
                                      ELSE e.coderank_queue
                             IN  IF m # only THEN NoCall
                                 ELSE NewCall(m, Take(q, EMBED_BATCH))],
                !.gte_queue = IF only = "gte" THEN Drop(@, EMBED_BATCH) ELSE @,
                !.coderank_queue = IF only = "coderank" THEN Drop(@, EMBED_BATCH)
                                   ELSE @,
                !.pc = "gather"]

\* Head of `while gte_queue or coderank_queue`: leave the loop and return, or
\* cut the next batch of each non-empty queue and gather their requests.
PrepareRound(e) ==
    IF e.gte_queue = <<>> /\ e.coderank_queue = <<>>
    THEN [e EXCEPT !.pc = "returned", !.tasks = [m \in Hints |-> NoCall]]
    ELSE [e EXCEPT
            !.round_num = @ + 1,
            !.tasks = [m \in Hints |->
                         LET q == IF m = "gte" THEN e.gte_queue ELSE e.coderank_queue
                         IN  IF q = <<>> THEN NoCall
                             ELSE NewCall(m, Take(q, EMBED_BATCH))],
            !.gte_queue = Drop(@, EMBED_BATCH),
            !.coderank_queue = Drop(@, EMBED_BATCH),
            !.pc = "gather"]

\* Result processing of one task of a round.
RoundResult(e, m) ==
    LET c == e.tasks[m]
    IN  CASE c.result = "exc" ->
               [e EXCEPT !.embeddings = ZeroFill(@, c.batch),
                         !.failed = @ \cup Positions(c.batch)]
          [] c.result = "ok" ->
               [e EXCEPT !.embeddings = Scatter(@, c.batch, c.acc)]
          [] OTHER -> e

\* _embed_parallel_unified up to its first gather.
EmbedParallelUnified(e) ==
    PrepareRound([e EXCEPT
        !.strategy = "parallel",
        !.gte_queue = Select(e.chunks, "gte", 1),
        !.coderank_queue = Select(e.chunks, "coderank", 1),
        !.embeddings = [p \in 1..Len(e.chunks) |-> None]])

\* _embed_single_model up to its await of embed_batch.
EmbedSingleModel(e) ==
    LET model == IF e.chunks # <<>> THEN e.chunks[1].model_hint ELSE "gte"
    IN  [e EXCEPT
           !.strategy = "single",
           !.tasks[model] = NewCall(model, [p \in 1..Len(e.chunks) |-> p]),
           !.pc = "single"]

\* The CodeRank half of _embed_sequential, or its return.
SeqCoderank(e) ==
    IF e.coderank_queue # <<>>
    THEN [e EXCEPT !.tasks["coderank"] = NewCall("coderank", e.coderank_queue),
                   !.pc = "seq_coderank"]
    ELSE [e EXCEPT !.pc = "returned"]

\* _embed_sequential up to its first await.
EmbedSequential(e) ==
    LET e0 == [e EXCEPT
                 !.strategy = "sequential",
                 !.gte_queue = Select(e.chunks, "gte", 1),
                 !.coderank_queue = Select(e.chunks, "coderank", 1),
                 !.embeddings = [p \in 1..Len(e.chunks) |-> None]]
    IN  IF e0.gte_queue # <<>>
        THEN [e0 EXCEPT !.tasks["gte"] = NewCall("gte", e0.gte_queue),
                        !.pc = "seq_gte"]
        ELSE SeqCoderank(e0)

\* What an embedding step leaves alone.
NotEmb == <<ctx, job, disc, sto, rec, api, scope, chk, page, bat, mgr, meta, svc, pipe, mapper>>

\* _embed_chunks: reset the counters, report 80, select the strategy.
EmbedChunks ==
    /\ emb.pc = "start"
    /\ LET e0 == [emb EXCEPT !.embeddings_generated = 0,
                             !.last_progress_percentage = 80,
                             !.progress = update_progress(@, 80)]
           gte_count == Len(Select(emb.chunks, "gte", 1))
           coderank_count == Len(Select(emb.chunks, "coderank", 1))
       IN  emb' = IF gte_count = 0 \/ coderank_count = 0
                  THEN EmbedSingleModel(e0)
                  ELSE IF emb.parallel THEN EmbedParallelUnified(e0)
                  ELSE EmbedSequential(e0)
    /\ UNCHANGED NotEmb

\* Mutant of RetryDelay: the exponent is the attempt number.
RetryDelay_Late(attempt) == Min(2 ^ attempt, 5)

\* delay = min(2 ** (attempt - 1), 5)
RetryDelay(attempt) == Min(2 ^ (attempt - 1), 5)

\* One attempt of _request_embeddings for the current sub-batch of the
\* embed_batch call of model m. The service answers a request with one vector
\* per input text, in input order; a response ends the loop, a failed attempt
\* before the last one goes to sleep, the last one leaves the loop and the
\* last error leaves embed_batch.
RequestEmbeddings(m) ==
    /\ emb.tasks[m].result = "pending"
    /\ ~emb.tasks[m].sleeping
    /\ \E ok \in BOOLEAN :
         LET c0 == emb.tasks[m]
             c == [c0 EXCEPT
                     !.requests = IF c0.attempt = 1 THEN 1 ELSE @ + 1,
                     !.slept = IF c0.attempt = 1 THEN <<>> ELSE @]
             sub == SubSeq(c.batch, c.i + 1, Min(c.i + EMBED_BATCH, Len(c.batch)))
             data == [k \in 1..Len(sub) |-> Vec(c.model, emb.chunks[sub[k]].text)]
         IN  emb' = [emb EXCEPT !.tasks[m] =
                IF ok
                THEN [c EXCEPT !.acc = @ \o data, !.i = @ + EMBED_BATCH,
                               !.attempt = 1,
                               !.result = IF c.i + EMBED_BATCH >= Len(c.batch)
                                          THEN "ok" ELSE "pending"]
                ELSE IF c.attempt < RETRIES
                     THEN [c EXCEPT !.sleeping = TRUE,
                                    !.slept = Append(@, RetryDelay(c.attempt))]
                     ELSE [c EXCEPT !.result = "exc"]]
    /\ UNCHANGED NotEmb

\* `await asyncio.sleep(delay)` returned: the next attempt of the loop.
RetrySleepDone(m) ==
    /\ emb.tasks[m].sleeping
    /\ emb' = [emb EXCEPT !.tasks[m].sleeping = FALSE,
                          !.tasks[m].attempt = @ + 1]
    /\ UNCHANGED NotEmb

\* gather(..., return_exceptions=True) of a round returned: zero-fill or
\* scatter each task's result, report 80..92, next round or return.
ParRoundDone ==
    /\ emb.pc = "gather"
    /\ \A m \in Hints : emb.tasks[m].result # "pending"
    /\ LET e1 == RoundResult(RoundResult(emb, "gte"), "coderank")
           g == Generated(e1.embeddings)
           e2 == EmbReport([e1 EXCEPT !.embeddings_generated = g],
                           80 + Pct(12, g, Len(emb.chunks)))
       IN  emb' = PrepareRound(e2)
    /\ UNCHANGED NotEmb

\* _embed_single_model after embed_batch: its result is returned as it is;
\* its exception leaves the router.
EmbedSingleReturn ==
    /\ emb.pc = "single"
    /\ \A m \in Hints : emb.tasks[m].result # "pending"
    /\ \E m \in Hints :
         /\ emb.tasks[m].result \in {"ok", "exc"}
         /\ emb' = IF emb.tasks[m].result = "ok"
                   THEN [emb EXCEPT
                           !.embeddings = emb.tasks[m].acc,
                           !.embeddings_generated = Len(emb.tasks[m].acc),
                           !.progress = update_progress(@, 92),
                           !.tasks[m] = NoCall,
                           !.pc = "returned"]
                   ELSE [emb EXCEPT !.tasks[m] = NoCall, !.pc = "raised"]
    /\ UNCHANGED NotEmb

\* _embed_sequential after the GTE embed_batch.
SeqGteDone ==
    /\ emb.pc = "seq_gte"
    /\ emb.tasks["gte"].result \in {"ok", "exc"}
    /\ LET c == emb.tasks["gte"]
           g == emb.embeddings_generated + Len(emb.gte_queue)
           e1 == [emb EXCEPT !.embeddings = Scatter(@, c.batch, c.acc),
                             !.embeddings_generated = g,
                             !.tasks["gte"] = NoCall]
       IN  emb' = IF c.result = "ok"
                  THEN SeqCoderank(EmbReport(e1, 80 + Pct(6, g, Len(emb.chunks))))
                  ELSE [emb EXCEPT !.tasks["gte"] = NoCall, !.pc = "raised"]
    /\ UNCHANGED NotEmb

\* _embed_sequential after the CodeRank embed_batch, and its return.
SeqCoderankDone ==
    /\ emb.pc = "seq_coderank"
    /\ emb.tasks["coderank"].result \in {"ok", "exc"}
    /\ LET c == emb.tasks["coderank"]
           g == emb.embeddings_generated + Len(emb.coderank_queue)
           e1 == [emb EXCEPT !.embeddings = Scatter(@, c.batch, c.acc),
                             !.embeddings_generated = g,
                             !.tasks["coderank"] = NoCall]
       IN  emb' = IF c.result = "ok"
                  THEN [EmbReport(e1, 80 + Pct(12, g, Len(emb.chunks)))
                          EXCEPT !.pc = "returned"]
                  ELSE [emb EXCEPT !.tasks["coderank"] = NoCall, !.pc = "raised"]
    /\ UNCHANGED NotEmb

\* A crawl job outside the embedding router's view: a fixed context.
IdleCtx == [processing_mode |-> "sequential", scoped |-> TRUE,
            auto_discovery |-> FALSE, mode |-> "single", follow |-> FALSE, n |-> 1]

ChunkLists ==
    UNION {[1..n -> [model_hint : Hints, text : Texts]] : n \in 0..MaxLen}

\* ========================================================= discovery
\* Seed URLs of one discover_files call: 1..MaxSeeds.
MaxSeeds == 2
\* Sitemap references found in the HTML of a seed page: 0..MaxTags.
MaxTags == 2
\* max_redirects of the discovery client
MAX_REDIRECTS == 3

\* A URL is its scheme, its host and the segments of its path.
Url(scheme, host, path) == [scheme |-> scheme, host |-> host, path |-> path]
NoUrl == Url("", "", <<>>)

Last(path) == IF path = <<>> THEN "" ELSE path[Len(path)]

\* Hosts of the model: a public site, the cloud metadata address as an IP
\* literal, and a name of the internal network.
Hosts == {"docs.example.com", "169.254.169.254", "intranet.corp"}

\* _looks_like_ip
looks_like_ip(host) == host = "169.254.169.254"

\* socket.getaddrinfo: the addresses a name resolves to.
getaddrinfo(host) ==
    CASE host = "docs.example.com" -> {"93.184.216.34"}
      [] host = "intranet.corp"    -> {"10.0.0.5"}
      [] OTHER                     -> {}

\* ipaddress classification of the model's addresses.
IpClass(ip) ==
    CASE ip = "169.254.169.254" -> "link_local"
      [] ip = "10.0.0.5"        -> "private"
      [] OTHER                  -> "global"

\* _is_safe_ip
is_safe_ip(ip) ==
    /\ IpClass(ip) \notin {"private", "loopback", "link_local", "multicast", "reserved"}
    /\ ip # "169.254.169.254"

\* _validate_hostname: TRUE when it returns, FALSE when it raises
\* DiscoveryError.
validate_hostname(u) ==
    /\ u.scheme \in {"http", "https"}
    /\ u.host # ""
    /\ IF looks_like_ip(u.host) THEN is_safe_ip(u.host)
       ELSE /\ getaddrinfo(u.host) # {}
            /\ \A ip \in getaddrinfo(u.host) : is_safe_ip(ip)

\* sanitize_url: the URL, or None
sanitize_url(u) ==
    IF u = NoUrl \/ u.scheme = "" \/ u.scheme \notin {"http", "https"}
    THEN NoUrl ELSE u

\* ensure_https
ensure_https(u) == [u EXCEPT !.scheme = "https"]

\* is_llms_variant
is_llms_variant(u) ==
    \/ Last(u.path) \in {"llms.txt", "llms-full.txt"}
    \/ /\ Len(u.path) >= 2
       /\ u.path[Len(u.path) - 1] = ".well-known"
       /\ Last(u.path) \in {"llms.txt", "llms-full.txt", "robots.txt"}

\* is_sitemap: ends with .xml or "sitemap", or contains "/sitemap"
is_sitemap(u) ==
    \/ Last(u.path) \in {"sitemap.xml", "sitemap_index.xml", "sitemap-docs.xml", "sitemap"}
    \/ \E k \in 1..Len(u.path) :
         u.path[k] \in {"sitemap.xml", "sitemap_index.xml", "sitemap-docs.xml",
                        "sitemap", "sitemaps"}

\* is_robots_txt
is_robots_txt(u) == Last(u.path) = "robots.txt"

priority_order ==
    << <<"llms.txt">>, <<"llms-full.txt">>, <<".well-known", "ai.txt">>,
       <<".well-known", "llms.txt">>, <<"sitemap.xml">>, <<"sitemap_index.xml">>,
       <<"robots.txt">>, <<".well-known", "sitemap.xml">> >>

common_subdirs ==
    <<"docs", "doc", "documentation", "api", "static", "public", "assets",
      "sitemaps", "sitemap", "xml", "feed">>

\* _extract_directory: the path without a last segment that names a file.
extract_directory(u) ==
    IF Last(u.path) \in {"index.html"}
    THEN SubSeq(u.path, 1, Len(u.path) - 1) ELSE u.path

\* _build_candidate_urls
build_candidate_urls(base) ==
    LET U(path) == Url(base.scheme, base.host, path)
        base_dir == extract_directory(base)
        same_dir == <<"llms.txt", "llms-full.txt", "sitemap.xml">>
        sub_file == <<"llms.txt", "sitemap.xml">>
    IN  [k \in 1..Len(priority_order) |-> U(priority_order[k])]
        \o (IF base_dir # <<>>
            THEN [k \in 1..3 |-> U(base_dir \o <<same_dir[k]>>)] ELSE <<>>)
        \o [k \in 1..(2 * Len(common_subdirs)) |->
               U(<<common_subdirs[(k + 1) \div 2], sub_file[2 - (k % 2)]>>)]

RECURSIVE AllCandidates(_, _)
\* for url in urls: candidates.extend(_build_candidate_urls(ensure_https(url)))
AllCandidates(urls, i) ==
    IF i > Len(urls) THEN <<>>
    ELSE build_candidate_urls(ensure_https(urls[i])) \o AllCandidates(urls, i + 1)

\* _extract_sitemap_from_robots when no Sitemap: line is there
default_sitemap(robots_url) ==
    [robots_url EXCEPT !.path = SubSeq(@, 1, Len(@) - 1) \o <<"sitemap.xml">>]

NoFrame == [kind |-> "none", url |-> NoUrl, hops |-> 0, final |-> NoUrl,
            outer |-> NoUrl]

\* State of DiscoveryService when discover_files(urls) is called.
\* What the sites of the model may serve (web): the paths of the candidate
\* files that answer 200 with acceptable content; every other candidate
\* fails.
Webs ==
    {{},
     {<<"robots.txt">>},
     {<<"llms.txt">>, <<"sitemap.xml">>},
     {<<"sitemap.xml">>, <<"docs", "llms.txt">>}}

NewDisc(urls, web) ==
    [urls |-> urls, web |-> web, pc |-> "start", candidates |-> <<>>, ci |-> 0, fi |-> 0,
     checked |-> {}, frame |-> NoFrame, tags |-> <<>>,
     found |-> FALSE, result |-> NoUrl,
     \* history: every request the client sent: target host, on behalf of
     \* what, and whether _validate_hostname accepted the target before
     requests |-> {}]

DiscIdle == [NewDisc(<<>>, {}) EXCEPT !.pc = "idle"]

\* client.get(u): the request is sent, the coroutine waits for the response.
Request(d, kind, u, outer, validated) ==
    [d EXCEPT !.pc = "get",
              !.frame = [kind |-> kind, url |-> u, hops |-> 0, final |-> u,
                         outer |-> outer],
              !.requests = @ \cup {[host |-> u.host, scheme |-> u.scheme,
                                    via |-> kind, validated |-> validated]}]

\* _attempt_fetch up to its request: "none" (sanitize_url gave None),
\* "error" (_validate_hostname raised DiscoveryError) or "request".
AttemptBegin(u) ==
    IF sanitize_url(u) = NoUrl THEN "none"
    ELSE IF ~validate_hostname(sanitize_url(u)) THEN "error"
    ELSE "request"

\* return of discover_files
Return(d, found, u) ==
    [d EXCEPT !.pc = "done", !.found = found, !.result = u, !.frame = NoFrame,
              !.tags = <<>>]

RECURSIVE FallbackLoop(_)
\* "Fallback: check HTML meta tags on base URLs": the next seed not checked
\* yet is fetched by _check_html_meta_tags; none left: return None.
FallbackLoop(d) ==
    IF d.fi >= Len(d.urls) THEN Return(d, FALSE, NoUrl)
    ELSE LET normalized == ensure_https(d.urls[d.fi + 1])
             d1 == [d EXCEPT !.fi = @ + 1, !.frame = NoFrame, !.tags = <<>>]
         IN  IF normalized \in d.checked THEN FallbackLoop(d1)
             ELSE Request([d1 EXCEPT !.checked = @ \cup {normalized}],
                          "meta", normalized, NoUrl, FALSE)

RECURSIVE CandidateLoop(_)
\* "Try priority files first": the next candidate not checked yet is probed
\* by _attempt_fetch; a DiscoveryError or a None result goes on to the next.
CandidateLoop(d) ==
    IF d.ci >= Len(d.candidates) THEN FallbackLoop(d)
    ELSE LET candidate == d.candidates[d.ci + 1]
             d1 == [d EXCEPT !.ci = @ + 1, !.frame = NoFrame]
             d2 == [d1 EXCEPT !.checked = @ \cup {candidate}]
         IN  IF candidate \in d.checked THEN CandidateLoop(d1)
             ELSE IF AttemptBegin(candidate) = "request"
                  THEN Request(d2, "candidate", candidate, NoUrl, TRUE)
                  ELSE CandidateLoop(d2)

RECURSIVE TagLoop(_)
\* `for tag_type, url in parser.sitemaps` of _check_html_meta_tags.
TagLoop(d) ==
    IF d.tags = <<>> THEN FallbackLoop(d)
    ELSE LET sitemap_url == Head(d.tags)
             d1 == [d EXCEPT !.tags = Tail(@), !.frame = NoFrame]
             d2 == [d1 EXCEPT !.checked = @ \cup {sitemap_url}]
         IN  IF sitemap_url.scheme \notin {"http", "https"} THEN TagLoop(d1)
             ELSE IF sitemap_url \in d.checked THEN TagLoop(d1)
             ELSE IF AttemptBegin(sitemap_url) = "request"
                  THEN Request(d2, "tag", sitemap_url, NoUrl, TRUE)
                  ELSE TagLoop(d2)

\* _attempt_fetch raised DiscoveryError: the caller's handler.
AttemptRaised(d) ==
    IF d.frame.kind = "tag" THEN TagLoop(d) ELSE CandidateLoop(d)

\* _attempt_fetch returned None.
AttemptNone(d) ==
    CASE d.frame.kind = "tag"    -> TagLoop(d)
      [] d.frame.kind = "nested" -> Return(d, TRUE, d.frame.outer)
      [] OTHER                   -> CandidateLoop(d)

\* _attempt_fetch returned a DiscoveredFile for its URL.
AttemptFound(d) == Return(d, TRUE, d.frame.url)

\* robots.txt fetched: the nested probe of its sitemap, or the file itself.
RobotsFetched(d, sitemap_url) ==
    IF sitemap_url # NoUrl /\ sitemap_url \notin d.checked
    THEN LET d1 == [d EXCEPT !.checked = @ \cup {sitemap_url}]
         IN  CASE AttemptBegin(sitemap_url) = "request" ->
                    Request(d1, "nested", sitemap_url, d.frame.url, TRUE)
               [] AttemptBegin(sitemap_url) = "error" -> AttemptRaised(d1)
               [] OTHER -> AttemptFound(d1)
    ELSE AttemptFound(d)

\* Sitemap URLs a robots.txt or a seed page can name (after urljoin).
DeclaredSitemaps ==
    {Url("https", h, <<"sitemap-docs.xml">>) : h \in Hosts}
        \cup {Url("ftp", "docs.example.com", <<"sitemap-docs.xml">>)}

TagLists == UNION {[1..n -> DeclaredSitemaps] : n \in 0..MaxTags}

\* What a discovery step leaves alone.
NotDisc == <<ctx, job, emb, sto, rec, api, scope, chk, page, bat, mgr, meta, svc, pipe, mapper>>

\* discover_files up to its first request.
DiscoverFiles ==
    /\ disc.pc = "start"
    /\ disc' = CandidateLoop([disc EXCEPT
                  !.checked = {},
                  !.candidates = AllCandidates(disc.urls, 1)])
    /\ UNCHANGED NotDisc

\* The client follows a redirect (follow_redirects=True): the response to
\* the pending request is a 3xx to a location the server chose, and the
\* client sends the next request there.
FollowRedirect ==
    /\ disc.pc = "get"
    /\ disc.frame.hops < MAX_REDIRECTS
    /\ \E h \in Hosts :
         disc' = [disc EXCEPT
                    !.frame.hops = @ + 1,
                    !.frame.final = [@ EXCEPT !.host = h],
                    !.requests = @ \cup {[host |-> h, scheme |-> disc.frame.final.scheme,
                                          via |-> "hop", validated |-> FALSE]}]
    /\ UNCHANGED NotDisc

\* _attempt_fetch from the response on: `out` is what the request gave,
\* `declared` the Sitemap: line of a robots.txt (NoUrl: it has none).
Attempted(d, out, declared) ==
    LET safe_url == d.frame.url
        sitemap_url == IF declared = NoUrl THEN default_sitemap(safe_url)
                       ELSE declared
    IN  IF out = "http_error" THEN AttemptRaised(d)
        ELSE IF out = "status_error" THEN AttemptNone(d)
        ELSE IF d.frame.hops > 0 /\ ~validate_hostname(d.frame.final)
             THEN AttemptNone(d)
        ELSE IF out = "too_large" THEN AttemptNone(d)
        ELSE IF is_llms_variant(safe_url) \/ is_sitemap(safe_url)
             THEN AttemptFound(d)
        ELSE IF is_robots_txt(safe_url) THEN RobotsFetched(d, sitemap_url)
        ELSE AttemptNone(d)

\* _attempt_fetch after its client.get, for a candidate, a nested sitemap or
\* a sitemap named by a seed page.
AttemptDone ==
    /\ disc.pc = "get"
    /\ disc.frame.kind \in {"candidate", "nested", "tag"}
    /\ \E out \in (IF disc.frame.kind # "candidate"
                    THEN {"http_error", "status_error", "too_large", "ok"}
                    ELSE IF disc.frame.url.path \in disc.web THEN {"ok"}
                    ELSE {"http_error", "status_error", "too_large"}) :
       \E declared \in (IF out = "ok" /\ is_robots_txt(disc.frame.url)
                        THEN DeclaredSitemaps ELSE {}) \cup {NoUrl} :
         disc' = Attempted(disc, out, declared)
    /\ UNCHANGED NotDisc

\* _check_html_meta_tags after its client.get of the seed.
MetaFetched ==
    /\ disc.pc = "get"
    /\ disc.frame.kind = "meta"
    /\ \E out \in {"http_error", "not_html", "ok"} :
       \E tags \in (IF out = "ok" THEN TagLists ELSE {<<>>}) :
         disc' = IF out = "ok" THEN TagLoop([disc EXCEPT !.tags = tags])
                 ELSE FallbackLoop(disc)
    /\ UNCHANGED NotDisc

Seeds == {Url("http", h, p) : h \in Hosts, p \in {<<>>, <<"guide">>}}

\* ================================================ stores across runs
\* Chunks of the job handed to _store_chunks: 1..MaxStoreChunks.
MaxStoreChunks == 2
\* Runs of the same job (same scope, pages and contents) one after another.
MaxRuns == 2

Pages == {"p1", "p2"}

\* uuid4 values the runs can draw.
UuidPool == 1..(MaxRuns * MaxStoreChunks)

\* _stable_chunk_id: uuid5 of "{web_page_id}:{chunk_index}:{sha256(text)}"
stable_chunk_id(web_page_id, chunk) ==
    <<"uuid5", web_page_id, chunk.chunk_index, chunk.text>>

\* _upsert_web_page: uuid5 of "{dataset_id}:{page.url}"
page_id(url) == <<"uuid5", "dataset", url>>

\* INSERT ... ON CONFLICT (id) DO UPDATE, and the point upsert: a row
\* replaces the row of the same id.
Upsert(table, rows) ==
    {r \in table : \A n \in rows : n.id # r.id} \cup rows

\* The StoredChunk list: one per chunk, ids[k] the uuid4 drawn for chunk k.
StoredChunks(chunks, ids) ==
    {[id |-> <<"uuid4", ids[k]>>, page |-> chunks[k].source_path,
      chunk_index |-> chunks[k].chunk_index, text |-> chunks[k].text]
        : k \in 1..Len(chunks)}

\* records of upsert_chunks: one per chunk, keyed by the stable id.
CanonicalRecords(chunks) ==
    {[id |-> stable_chunk_id(page_id(chunks[k].source_path), chunks[k]),
      page |-> chunks[k].source_path,
      chunk_index |-> chunks[k].chunk_index, text |-> chunks[k].text]
        : k \in 1..Len(chunks)}

\* Chunk lists of a job: (source_path, chunk_index) names a chunk.
StoreInputs ==
    {c \in UNION {[1..n -> [source_path : Pages, chunk_index : 0..1, text : Texts]]
                     : n \in 1..MaxStoreChunks} :
        \A i, k \in 1..Len(c) :
            (c[i].source_path = c[k].source_path
               /\ c[i].chunk_index = c[k].chunk_index) => i = k}

\* The three stores, empty, and the first run of the job about to store.
NewSto(chunks) ==
    [chunks |-> chunks, run |-> 1, pc |-> "meta",
     postgres |-> {}, qdrant |-> {}, canonical |-> {},
     metadata_store |-> FALSE, stored_chunks |-> {}, used |-> {},
     \* history: every store call of every run succeeded; the ids each run
     \* assigned; the counts when the first run ended
     clean |-> TRUE, assigned |-> {},
     first |-> [postgres |-> 0, qdrant |-> 0, canonical |-> 0]]

StoIdle == [NewSto(<<>>) EXCEPT !.pc = "idle"]

\* What a storing step leaves alone.
NotSto == <<ctx, job, emb, disc, rec, api, scope, chk, page, bat, mgr, meta, svc, pipe, mapper>>

\* Canonical metadata: initialize, upsert_web_pages, upsert_chunks.
StoMeta ==
    /\ sto.pc = "meta"
    /\ \E out \in {"ok", "pages_failed", "chunks_failed"} :
         sto' = [sto EXCEPT
                   !.metadata_store = (out # "pages_failed"),
                   !.canonical = IF out = "ok"
                                 THEN Upsert(@, CanonicalRecords(sto.chunks)) ELSE @,
                   !.clean = @ /\ out = "ok",
                   !.pc = "build"]
    /\ UNCHANGED NotSto

\* Both vector stores initialized; the StoredChunk list is built, each with
\* id = str(uuid4()).
StoBuild ==
    /\ sto.pc = "build"
    /\ \E ids \in [1..Len(sto.chunks) -> UuidPool \ sto.used] :
         /\ \A i, k \in 1..Len(sto.chunks) : ids[i] = ids[k] => i = k
         /\ sto' = [sto EXCEPT
                      !.stored_chunks = StoredChunks(sto.chunks, ids),
                      !.used = @ \cup {ids[k] : k \in 1..Len(sto.chunks)},
                      !.assigned = @ \cup
                          {[run |-> sto.run, chunk |-> sto.chunks[k],
                            id |-> <<"uuid4", ids[k]>>] : k \in 1..Len(sto.chunks)},
                      !.pc = "pg"]
    /\ UNCHANGED NotSto

\* postgres_store.insert_chunks
StoPgInsert ==
    /\ sto.pc = "pg"
    /\ \E ok \in BOOLEAN :
         sto' = [sto EXCEPT
                   !.postgres = IF ok THEN Upsert(@, sto.stored_chunks) ELSE @,
                   !.clean = @ /\ ok,
                   !.pc = "qd"]
    /\ UNCHANGED NotSto

\* qdrant_store.insert_chunks
StoQdInsert ==
    /\ sto.pc = "qd"
    /\ \E ok \in BOOLEAN :
         sto' = [sto EXCEPT
                   !.qdrant = IF ok THEN Upsert(@, sto.stored_chunks) ELSE @,
                   !.clean = @ /\ ok,
                   !.pc = IF sto.metadata_store THEN "canon" ELSE "close"]
    /\ UNCHANGED NotSto

\* metadata_store.upsert_chunks, second call
StoCanon ==
    /\ sto.pc = "canon"
    /\ \E ok \in BOOLEAN :
         sto' = [sto EXCEPT
                   !.canonical = IF ok THEN Upsert(@, CanonicalRecords(sto.chunks)) ELSE @,
                   !.clean = @ /\ ok,
                   !.pc = "close"]
    /\ UNCHANGED NotSto

\* finally: the stores are closed; the job is run again, or not.
StoClose ==
    /\ sto.pc = "close"
    /\ sto' = [sto EXCEPT
                 !.first = IF sto.run = 1
                           THEN [postgres |-> Cardinality(sto.postgres),
                                 qdrant |-> Cardinality(sto.qdrant),
                                 canonical |-> Cardinality(sto.canonical)]
                           ELSE @,
                 !.stored_chunks = {},
                 !.metadata_store = FALSE,
                 !.run = IF sto.run < MaxRuns THEN @ + 1 ELSE @,
                 !.pc = IF sto.run < MaxRuns THEN "meta" ELSE "finished"]
    /\ UNCHANGED NotSto

StoNext ==
    StoMeta \/ StoBuild \/ StoPgInsert \/ StoQdInsert \/ StoCanon \/ StoClose

\* ======================================================= scope manager
\* ScopeManager.resolve_scope (storage/scope_manager.py). An argument is
\* Absent (None), the empty string or a name.
Absent == "<None>"

\* Truth value of an Optional[str].
Truthy(x) == x \notin {Absent, ""}

Names == {Absent, "", "docs", "api"}
RequestedScopes == {Absent, "", "global", "project", "local", "GLOBAL", "team"}

\* ScopeLevel(requested_scope) inside try/except ValueError: the member, or
\* Absent when the string names no member.
ScopeLevel(value) ==
    IF value \in {"global", "project", "local"} THEN value ELSE Absent

\* Mutant of resolve_scope: LOCAL whatever the arguments.
resolve_scope_local(project, dataset, requested_scope) == "local"

\* resolve_scope(project, dataset, requested_scope)
resolve_scope(project, dataset, requested_scope) ==
    IF requested_scope = "global" THEN "global"
    ELSE LET scope_enum == IF Truthy(requested_scope)
                           THEN ScopeLevel(requested_scope)
                           ELSE Absent
         IN  IF Truthy(project) /\ Truthy(dataset)
             THEN IF scope_enum = "project" THEN "project" ELSE "local"
             ELSE IF Truthy(project) THEN "project"
             ELSE "global"

NewScope(project, dataset, requested_scope) ==
    [pc |-> "call", project |-> project, dataset |-> dataset,
     requested_scope |-> requested_scope, result |-> Absent]

ScopeIdle == [NewScope(Absent, Absent, Absent) EXCEPT !.pc = "idle"]

NotScope == <<ctx, job, emb, disc, sto, rec, api, chk, page, bat, mgr, meta, svc, pipe, mapper>>

ResolveScope ==
    /\ scope.pc = "call"
    /\ scope' = [scope EXCEPT
                   !.pc = "returned",
                   !.result = resolve_scope(scope.project, scope.dataset,
                                            scope.requested_scope)]
    /\ UNCHANGED NotScope

ScopeNext == ResolveScope

\* ================================================== recursive strategy
\* One call of crawl_recursive_with_progress (strategies/recursive.py). A
\* URL is its host and port, the last segment of its path as name and
\* extension, and its fragment. The fetcher (crawl4ai arun_many behind
\* CrawlerManager.crawl_many) streams one result per submitted URL, in any
\* order, each reporting the URL it was asked for; the stream may also break
\* with an exception at any point.
MaxDepth == 2
MaxPages == 2
\* Number of seed URLs of a call is 1..MaxRecSeeds.
MaxRecSeeds == 3
\* CRAWL_BATCH_SIZE of the environment (default 50), scaled to the model.
CRAWL_BATCH_SIZE == 2

PageUrl(host, port, name, ext, frag) ==
    [host |-> host, port |-> port, name |-> name, ext |-> ext, frag |-> frag]

\* urldefrag(url)[0]
normalize(u) == [u EXCEPT !.frag = ""]

\* str.lower() on the extensions of the model.
Lower(ext) == IF ext = ".PDF" THEN ".pdf" ELSE ext

\* Two members of the tuple of binary suffixes.
BINARY_EXTENSIONS == {".pdf", ".png"}

is_binary_file(u) == Lower(u.ext) \in BINARY_EXTENSIONS

\* next_url.split("//", 1)[-1].split("/", 1)[0]: the authority, host:port.
domain(u) == <<u.host, u.port>>

\* seed_urls handed to the strategy: up to MaxRecSeeds of these.
SeedPool ==
    {PageUrl("example.org", "", "index", "", ""),
     PageUrl("example.org", "", "index", "", "top"),
     PageUrl("example.org", "", "manual", ".pdf", ""),
     PageUrl("other.net", "", "index", "", "")}

\* result.links["internal"] of a fetched page: one of these lists.
LinkSets ==
    {{},
     {PageUrl("example.org", "", "faq", "", "install"),
      PageUrl("example.org", ":8080", "faq", "", ""),
      PageUrl("other.net", "", "index", "", "")},
     {PageUrl("example.org", "", "manual", ".PDF", ""),
      PageUrl("example.org", "", "guide", "", ""),
      PageUrl("example.org", "", "index", "", "")}}

\* State of the call up to the first depth level, and the history the
\* properties read: submitted (every URL handed to crawl_many), batches
\* (calls of crawl_many), levels (depth levels begun), capped (a max_pages
\* test stopped a loop).
NewRec(seed_urls, max_depth, max_pages, same_domain_only, include_links, set) ==
    [pc |-> "depth", seed_urls |-> seed_urls,
     max_depth |-> max_depth, max_pages |-> max_pages,
     same_domain_only |-> same_domain_only, include_links |-> include_links,
     cancel_event |-> set,
     visited |-> {}, results |-> <<>>,
     total_processed |-> 0,
     current_urls |-> {normalize(u) : u \in seed_urls},
     total_discovered |-> Cardinality({normalize(u) : u \in seed_urls}),
     seed_domains |-> {domain(normalize(u)) : u \in seed_urls},
     depth |-> 0, urls_to_crawl |-> {}, next_level_urls |-> {},
     stream |-> {},
     submitted |-> {}, batches |-> 0, levels |-> 0, capped |-> FALSE]

RecIdle == [NewRec({}, 0, 0, FALSE, FALSE, FALSE) EXCEPT !.pc = "idle"]

\* What a step of the strategy leaves alone.
NotRec == <<ctx, job, emb, disc, sto, api, scope, chk, page, bat, mgr, meta, svc, pipe, mapper>>

\* Mutant of is_set: the strategy never looks at the cancel flag.
is_set_ignored(r) == FALSE

\* if cancel_event and cancel_event.is_set(): raise asyncio.CancelledError()
is_set(r) == r.cancel_event

RecRaise(r) == [r EXCEPT !.pc = "cancelled"]

\* Mutant of cap_reached: the test lets one page more through.
cap_reached_late(r) == r.max_pages > 0 /\ Len(r.results) > r.max_pages

\* if max_pages > 0 and len(results) >= max_pages: break
cap_reached(r) == r.max_pages > 0 /\ Len(r.results) >= r.max_pages

\* The final report and return results. The progress callback of the
\* orchestrator (_execute_crawl) has no suspension point, so a report is
\* not a step of its own.
RecFinish(r) == [r EXCEPT !.pc = "done"]

\* Head of the depth loop up to the batch loop.
DepthLoop(r) ==
    IF r.depth >= r.max_depth THEN RecFinish(r)
    ELSE IF is_set(r) THEN RecRaise(r)
    ELSE IF r.current_urls \ r.visited = {} THEN RecFinish(r)
    ELSE IF cap_reached(r) THEN RecFinish([r EXCEPT !.capped = TRUE])
    ELSE [r EXCEPT !.urls_to_crawl = r.current_urls \ r.visited,
                   !.next_level_urls = {},
                   !.levels = @ + 1,
                   !.pc = "batch"]

\* End of the batch loop: the depth report, current_urls = next_level_urls.
DepthEnd(r) ==
    [r EXCEPT !.current_urls = r.next_level_urls,
              !.urls_to_crawl = {},
              !.depth = @ + 1,
              !.pc = "depth"]

\* Mutant of domain_allowed: links of every domain pass.
domain_allowed_any(r, u) == TRUE

\* The same-domain filter of the link loop.
domain_allowed(r, u) == r.same_domain_only => domain(u) \in r.seed_domains

\* The link loop over result.links["internal"] of a collected page.
NextLevel(r, links) ==
    IF r.include_links /\ r.depth < r.max_depth - 1
    THEN {n \in {normalize(l) : l \in links} :
            /\ n \notin r.visited
            /\ ~is_binary_file(n)
            /\ domain_allowed(r, n)}
    ELSE {}

\* Body of the async for over one streamed result of URL u.
StreamedResult(r, u, success, links) ==
    IF is_set(r) THEN RecRaise(r)
    ELSE IF cap_reached(r)
         THEN [r EXCEPT !.capped = TRUE, !.stream = {}, !.pc = "batch"]
    ELSE LET seen == [r EXCEPT !.visited = @ \cup {normalize(u)},
                               !.total_processed = @ + 1,
                               !.stream = @ \ {u}]
             found == NextLevel(seen, links) \ seen.next_level_urls
         IN  IF ~success THEN seen
             ELSE [seen EXCEPT !.results = Append(@, u),
                               !.next_level_urls = @ \cup found,
                               !.total_discovered = @ + Cardinality(found)]

\* for depth in range(max_depth): the head of a depth level.
RecDepth ==
    /\ rec.pc = "depth"
    /\ rec' = DepthLoop(rec)
    /\ UNCHANGED NotRec

\* for batch_idx in range(0, len(urls_to_crawl), batch_size): the tests, the
\* slice (urls_to_crawl lists a set, so any batch_size of them may come
\* first) and the call of crawler.crawl_many.
RecBatch ==
    /\ rec.pc = "batch"
    /\ IF rec.urls_to_crawl = {} THEN rec' = DepthEnd(rec)
       ELSE IF is_set(rec) THEN rec' = RecRaise(rec)
       ELSE IF cap_reached(rec) THEN rec' = DepthEnd([rec EXCEPT !.capped = TRUE])
       ELSE \E batch_urls \in SUBSET rec.urls_to_crawl :
              /\ Cardinality(batch_urls) =
                     Min(CRAWL_BATCH_SIZE, Cardinality(rec.urls_to_crawl))
              /\ rec' = [rec EXCEPT !.urls_to_crawl = @ \ batch_urls,
                                    !.stream = batch_urls,
                                    !.submitted = @ \cup batch_urls,
                                    !.batches = @ + 1,
                                    !.pc = "stream"]
    /\ UNCHANGED NotRec

\* The fetcher yields the result of one URL of the batch.
RecResult ==
    /\ rec.pc = "stream"
    /\ \E u \in rec.stream, success \in BOOLEAN, links \in LinkSets :
         rec' = StreamedResult(rec, u, success, IF success THEN links ELSE {})
    /\ UNCHANGED NotRec

\* The stream is exhausted: back to the batch loop.
RecStreamEnd ==
    /\ rec.pc = "stream"
    /\ rec.stream = {}
    /\ rec' = [rec EXCEPT !.pc = "batch"]
    /\ UNCHANGED NotRec

\* except Exception: the batch failed, continue with the next batch.
RecBatchFailed ==
    /\ rec.pc = "stream"
    /\ rec.stream # {}
    /\ rec' = [rec EXCEPT !.stream = {}, !.pc = "batch"]
    /\ UNCHANGED NotRec

\* Another task sets the cancel flag while the strategy waits for the
\* fetcher.
RecSetCancel ==
    /\ rec.pc = "stream"
    /\ ~rec.cancel_event
    /\ rec' = [rec EXCEPT !.cancel_event = TRUE]
    /\ UNCHANGED NotRec

RecNext ==
    \/ RecDepth \/ RecBatch \/ RecResult \/ RecStreamEnd \/ RecBatchFailed
    \/ RecSetCancel

\* ============================================================ chunking
\* app/chunking: RecursiveTextSplitter, MarkdownCodeExtractor and
\* SmartChunker.chunk_text.  A str is a sequence of one-character strings,
\* positions are Python's (0-based), a chunk is its [start_char, end_char)
\* range.
MaxDocLen == 4
MaxChunkSize == 3

Whitespace == {" ", "\n"}       \* what str.strip() removes and \s matches
WordChars == {"a"}              \* \w
Fence == <<"~", "~", "~">>       \* three backquotes; "~" stands for one

\* text[i:j]
Slice(t, i, j) == SubSeq(t, i + 1, Min(j, Len(t)))

\* text[i:i+len(s)] == s
StartsAt(t, s, i) == i + Len(s) <= Len(t) /\ SubSeq(t, i + 1, i + Len(s)) = s

\* `separator in text`
Contains(t, s) == \E i \in 0..(Len(t) - Len(s)) : StartsAt(t, s, i)

\* text.find(s, from)
Find(t, s, from) ==
    LET hits == {i \in from..(Len(t) - Len(s)) : StartsAt(t, s, i)}
    IN  IF hits = {} THEN -1 ELSE CHOOSE i \in hits : \A k \in hits : i <= k

\* [len(piece) for piece in text.split(s)], scanning from `from`
RECURSIVE SplitLens(_, _, _)
SplitLens(t, s, from) ==
    LET k == Find(t, s, from)
    IN  IF k = -1 THEN <<Len(t) - from>>
        ELSE <<k - from>> \o SplitLens(t, s, k + Len(s))

\* text.strip(): the first and one-past-last position kept
StripStart(t) ==
    LET kept == {i \in 0..(Len(t) - 1) : t[i + 1] \notin Whitespace}
    IN  IF kept = {} THEN Len(t) ELSE CHOOSE i \in kept : \A k \in kept : i <= k
StripEnd(t) ==
    LET kept == {i \in 0..(Len(t) - 1) : t[i + 1] \notin Whitespace}
    IN  IF kept = {} THEN Len(t) ELSE 1 + CHOOSE i \in kept : \A k \in kept : i >= k
Strip(t) == Slice(t, StripStart(t), StripEnd(t))

\* the length of the run of characters of `set` that starts at position p
RECURSIVE Run(_, _, _)
Run(t, set, p) ==
    IF p < Len(t) /\ t[p + 1] \in set THEN 1 + Run(t, set, p + 1) ELSE 0

\* `^` under re.MULTILINE
LineStart(t, p) == p = 0 \/ t[p] = "\n"

\* the position of the end of the line that holds position p
EndOfLine(t, p) == LET k == Find(t, <<"\n">>, p) IN IF k = -1 THEN Len(t) ELSE k

TextChunk(start, end) == [start_char |-> start, end_char |-> end]

SEPARATORS ==
    << <<"\n", "\n", "\n">>, <<"\n", "\n">>, <<"\n">>, <<".", " ">>,
       <<"!", " ">>, <<"?", " ">>, <<";", " ">>, <<",", " ">>, <<" ">>, <<>> >>

\* _split_by_characters: slices of chunk_size characters.
RECURSIVE split_by_characters(_, _, _, _)
split_by_characters(len, offset, i, chunk_size) ==
    IF i >= len THEN <<>>
    ELSE <<TextChunk(offset + i, offset + Min(i + chunk_size, len))>>
         \o split_by_characters(len, offset, i + chunk_size, chunk_size)

\* One iteration of the loop of _split_by_separator over a piece of `split`
\* characters (its separator added back); st holds chunks, the length of
\* current_chunk and current_start.
PackSplit(st, split, chunk_size) ==
    IF st.current_chunk + split <= chunk_size
    THEN [st EXCEPT !.current_chunk = @ + split]
    ELSE LET saved == IF st.current_chunk > 0
                      THEN [st EXCEPT
                              !.chunks = Append(@, TextChunk(st.current_start,
                                            st.current_start + st.current_chunk)),
                              !.current_start = @ + st.current_chunk]
                      ELSE st
             sub_chunks == split_by_characters(split, saved.current_start, 0,
                                               chunk_size)
         IN  IF split > chunk_size
             THEN [saved EXCEPT !.chunks = @ \o sub_chunks,
                                !.current_start = sub_chunks[Len(sub_chunks)].end_char,
                                !.current_chunk = 0]
             ELSE [saved EXCEPT !.current_chunk = split]

RECURSIVE PackSplits(_, _, _, _, _)
PackSplits(st, lens, i, seplen, chunk_size) ==
    IF i > Len(lens) THEN st
    ELSE PackSplits(PackSplit(st, lens[i] + (IF i < Len(lens) THEN seplen ELSE 0),
                              chunk_size),
                    lens, i + 1, seplen, chunk_size)

\* _split_by_separator: pack consecutive pieces while they fit chunk_size.
split_by_separator(text, separator, offset, chunk_size) ==
    LET st == PackSplits([chunks |-> <<>>, current_chunk |-> 0,
                          current_start |-> offset],
                         SplitLens(text, separator, 0), 1, Len(separator),
                         chunk_size)
    IN  IF st.current_chunk > 0
        THEN Append(st.chunks, TextChunk(st.current_start,
                                         st.current_start + st.current_chunk))
        ELSE st.chunks

\* _split_recursive: the text itself when it fits, else the first separator
\* of the hierarchy the text contains, else character slices.
split_recursive(text, offset, chunk_size) ==
    IF Len(text) <= chunk_size
    THEN <<TextChunk(offset, offset + Len(text))>>
    ELSE LET usable == {k \in 1..Len(SEPARATORS) :
                           SEPARATORS[k] = <<>> \/ Contains(text, SEPARATORS[k])}
             k == CHOOSE k \in usable : \A m \in usable : k <= m
         IN  IF SEPARATORS[k] = <<>>
             THEN split_by_characters(Len(text), offset, 0, chunk_size)
             ELSE split_by_separator(text, SEPARATORS[k], offset, chunk_size)

\* HEADER_PATTERN = ^(#{1,6})\s+(.+)$ under re.MULTILINE, tried at p: the
\* end of the match, or -1.  One to six "#" at a line start, then a run of
\* whitespace that leaves (.+) at least one character of a line: the
\* greedy \s+ gives back until what follows is no newline, and (.+) runs
\* to the end of that line.
HeaderEnd(t, p) ==
    LET h == Run(t, {"#"}, p)
        w == Run(t, Whitespace, p + h)
        starts == {q \in (p + h + 1)..(p + h + w) :
                      q < Len(t) /\ t[q + 1] # "\n"}
    IN  IF ~LineStart(t, p) \/ h < 1 \/ h > 6 \/ starts = {} THEN -1
        ELSE EndOfLine(t, CHOOSE q \in starts : \A k \in starts : q >= k)

\* [m.start() for m in HEADER_PATTERN.finditer(text)], scanning from p
RECURSIVE Headers(_, _)
Headers(t, p) ==
    IF p >= Len(t) THEN <<>>
    ELSE LET e == HeaderEnd(t, p)
         IN  IF e = -1 THEN Headers(t, p + 1) ELSE <<p>> \o Headers(t, e)

\* The loop of _split_with_headers over the headers from the i-th on: a
\* section runs from its header to the next header or the end of the text.
RECURSIVE HeaderSections(_, _, _, _)
HeaderSections(text, headers, i, chunk_size) ==
    IF i > Len(headers) THEN <<>>
    ELSE LET start == headers[i]
             end == IF i < Len(headers) THEN headers[i + 1] ELSE Len(text)
         IN  (IF end - start <= chunk_size
              THEN <<TextChunk(start, end)>>
              ELSE split_recursive(Slice(text, start, end), start, chunk_size))
             \o HeaderSections(text, headers, i + 1, chunk_size)

\* _split_with_headers
split_with_headers(text, chunk_size) ==
    LET headers == Headers(text, 0)
    IN  IF headers = <<>> THEN split_recursive(text, 0, chunk_size)
        ELSE (IF headers[1] > 0
              THEN split_recursive(Slice(text, 0, headers[1]), 0, chunk_size)
              ELSE <<>>)
             \o HeaderSections(text, headers, 1, chunk_size)

\* _apply_overlap: every chunk after the first starts chunk_overlap
\* characters earlier.
apply_overlap(chunks, chunk_overlap) ==
    [i \in 1..Len(chunks) |->
        IF i = 1 \/ chunk_overlap = 0 THEN chunks[i]
        ELSE TextChunk(Max(0, chunks[i].start_char - chunk_overlap),
                       chunks[i].end_char)]

\* RecursiveTextSplitter.split_text
split_text(text, chunk_size, chunk_overlap) ==
    IF text = <<>> THEN <<>>
    ELSE apply_overlap(split_with_headers(text, chunk_size), chunk_overlap)

NoMatch == [start |-> -1, end |-> -1, code_start |-> -1, code_end |-> -1]

\* FENCED_CODE_PATTERN = ^```(\w+)?\s*\n(.*?)^```\s*$ under MULTILINE and
\* DOTALL, tried at p.  The opening fence at a line start, the word run,
\* then the greedy \s* ends at the last newline of the whitespace run that
\* still lets the rest match; the lazy (.*?) ends at the first closing
\* fence at a line start whose trailing \s* can stop at an end of line.
FencedMatch(t, p) ==
    LET b == p + 3 + Run(t, WordChars, p + 3)
        newlines == {n \in b..(b + Run(t, Whitespace, b) - 1) : t[n + 1] = "\n"}
        CloseEnds(c) ==
            IF LineStart(t, c) /\ StartsAt(t, Fence, c)
            THEN {e \in (c + 3)..(c + 3 + Run(t, Whitespace, c + 3)) :
                     e = Len(t) \/ t[e + 1] = "\n"}
            ELSE {}
        closers(n) == {c \in (n + 1)..Len(t) : CloseEnds(c) # {}}
        usable == {n \in newlines : closers(n) # {}}
        n == CHOOSE n \in usable : \A k \in usable : n >= k
        c == CHOOSE c \in closers(n) : \A k \in closers(n) : c <= k
    IN  IF ~(LineStart(t, p) /\ StartsAt(t, Fence, p)) \/ usable = {}
        THEN NoMatch
        ELSE [start |-> p,
              end |-> CHOOSE e \in CloseEnds(c) : \A k \in CloseEnds(c) : e >= k,
              code_start |-> n + 1, code_end |-> c]

\* FENCED_CODE_PATTERN.finditer(markdown), scanning from p
RECURSIVE FencedMatches(_, _)
FencedMatches(t, p) ==
    IF p >= Len(t) THEN <<>>
    ELSE LET match == FencedMatch(t, p)
         IN  IF match = NoMatch THEN FencedMatches(t, p + 1)
             ELSE <<match>> \o FencedMatches(t, match.end)

MarkdownSegment(content, is_code, start_pos, end_pos) ==
    [content |-> content, is_code |-> is_code,
     start_pos |-> start_pos, end_pos |-> end_pos]

\* The stripped text between last_end and end as a text segment, if any.
TextSegment(markdown, last_end, end) ==
    LET text_content == Strip(Slice(markdown, last_end, end))
    IN  IF end > last_end /\ text_content # <<>>
        THEN <<MarkdownSegment(text_content, FALSE, last_end, end)>>
        ELSE <<>>

\* The loop of extract_segments over the matches from the i-th on, and the
\* remaining text after the last one.
RECURSIVE Segments(_, _, _, _)
Segments(markdown, matches, i, last_end) ==
    IF i > Len(matches) THEN TextSegment(markdown, last_end, Len(markdown))
    ELSE LET match == matches[i]
             code == Strip(Slice(markdown, match.code_start, match.code_end))
         IN  TextSegment(markdown, last_end, match.start)
             \o (IF code # <<>>
                 THEN <<MarkdownSegment(code, TRUE, match.start, match.end)>>
                 ELSE <<>>)
             \o Segments(markdown, matches, i + 1, match.end)

\* MarkdownCodeExtractor.extract_segments
extract_segments(markdown) ==
    LET segments == Segments(markdown, FencedMatches(markdown, 0), 1, 0)
    IN  IF markdown = <<>> THEN <<>>
        ELSE IF segments = <<>>
        THEN <<MarkdownSegment(markdown, FALSE, 0, Len(markdown))>>
        ELSE segments

\* '```' in text and '\n```' in text
is_markdown_with_code(text) ==
    Contains(text, Fence) /\ Contains(text, <<"\n">> \o Fence)

\* _chunk_markdown_with_code_extraction over the segments from the i-th on:
\* each segment's content is split on its own and its chunks are placed at
\* segment.start_pos + the chunk's position in the content.
RECURSIVE chunk_segments(_, _, _, _)
chunk_segments(segments, i, chunk_size, chunk_overlap) ==
    IF i > Len(segments) THEN <<>>
    ELSE LET segment == segments[i]
             text_chunks == split_text(segment.content, chunk_size, chunk_overlap)
         IN  [k \in 1..Len(text_chunks) |->
                 TextChunk(segment.start_pos + text_chunks[k].start_char,
                           segment.start_pos + text_chunks[k].end_char)]
             \o chunk_segments(segments, i + 1, chunk_size, chunk_overlap)

\* SmartChunker.chunk_text: the ranges of the chunks it returns.
chunk_text(text, chunk_size, chunk_overlap) ==
    IF text = <<>> THEN <<>>
    ELSE IF is_markdown_with_code(text)
    THEN chunk_segments(extract_segments(text), 1, chunk_size, chunk_overlap)
    ELSE split_text(text, chunk_size, chunk_overlap)

\* The documents: every text of at most MaxDocLen characters, and markdown
\* with one fenced block between optional text.
DocChars == {"a", " ", "\n", "#", "~"}
PlainDocs == UNION {[1..n -> DocChars] : n \in 1..MaxDocLen}
FencedDocs ==
    {pre \o Fence \o lang \o <<"\n">> \o code \o Fence \o post :
        pre \in {<<>>, <<"\n">>, <<"a", "\n">>},
        lang \in {<<>>, <<"a">>},
        code \in {<<"\n">>, <<"a", "\n">>, <<" ", "a", "\n">>,
                  <<"a", " ", "a", "\n">>},
        post \in {<<>>, <<"\n">>, <<"\n", "a">>, <<"\n", "\n", "a">>}}

\* A SmartChunker with its (chunk_size, chunk_overlap) and a call of
\* chunk_text(text).
NewChk(text, chunk_size, chunk_overlap) ==
    [pc |-> "call", text |-> text, chunk_size |-> chunk_size,
     chunk_overlap |-> chunk_overlap, chunks |-> <<>>]

ChkIdle == [pc |-> "idle", text |-> <<>>, chunk_size |-> 1,
            chunk_overlap |-> 0, chunks |-> <<>>]

NotChk == <<ctx, job, emb, disc, sto, rec, api, scope, page, bat, mgr, meta, svc, pipe, mapper>>

ChunkText ==
    /\ chk.pc = "call"
    /\ chk' = [chk EXCEPT !.pc = "returned",
                 !.chunks = chunk_text(chk.text, chk.chunk_size,
                                       chk.chunk_overlap)]
    /\ UNCHANGED NotChk

ChkNext == ChunkText

\* ================================================== single page strategy
\* strategies/single_page.py: crawl_single_page.
ATTEMPTS == 3
cache_modes == <<"ENABLED", "BYPASS", "BYPASS">>
SHORT_HTML == 50
\* len(fetch_result.html or "") of a response
HtmlLens == {0, SHORT_HTML - 1, SHORT_HTML}

\* A call of crawl_single_page; doc_site is is_documentation_site(url).
NewPage(prefer_browser, doc_site, set) ==
    [pc |-> "call", prefer_browser |-> prefer_browser, doc_site |-> doc_site,
     cancel_event |-> set, attempt_index |-> 0,
     use_browser |-> prefer_browser \/ doc_site,
     \* history: the _fetch_page calls made and how each ended
     fetches |-> <<>>,
     result |-> -1]

PageIdle == [NewPage(FALSE, FALSE, FALSE) EXCEPT !.pc = "idle"]

NotPage == <<ctx, job, emb, disc, sto, rec, api, scope, chk, bat, mgr, meta, svc, pipe, mapper>>

\* Head of `for attempt_index in range(attempts)`: SinglePageError after
\* the last attempt, CancelledError when the cancel flag is set, else the
\* next _fetch_page with this attempt's cache mode.
FetchAttempt(p) ==
    IF p.attempt_index >= ATTEMPTS THEN [p EXCEPT !.pc = "SinglePageError"]
    ELSE IF p.cancel_event THEN [p EXCEPT !.pc = "CancelledError"]
    ELSE [p EXCEPT
            !.pc = "fetch",
            !.fetches = Append(@,
                [use_browser |-> p.use_browser,
                 cache_mode |-> cache_modes[Min(p.attempt_index,
                                                Len(cache_modes) - 1) + 1],
                 outcome |-> "pending"])]

\* Mutant of short_html: a short page is escalated whoever fetched it.
short_html_any(html, use_browser) == html < SHORT_HTML

\* len(fetch_result.html or "") < 50 and not use_browser
short_html(html, use_browser) == html < SHORT_HTML /\ ~use_browser

CrawlSinglePage ==
    /\ page.pc = "call"
    /\ page' = FetchAttempt(page)
    /\ UNCHANGED NotPage

\* _fetch_page raised: the following attempts use the browser, after
\* asyncio.sleep(2 ** attempt_index).
FetchRaised ==
    /\ page.pc = "fetch"
    /\ page' = [page EXCEPT !.pc = "sleep", !.use_browser = TRUE,
                            !.fetches[Len(page.fetches)].outcome = "raised"]
    /\ UNCHANGED NotPage

\* _fetch_page returned a page of `html` characters: escalate a short
\* plain-HTTP page to the browser after asyncio.sleep(1.0), else return
\* the page.
FetchReturned ==
    /\ page.pc = "fetch"
    /\ \E html \in HtmlLens :
         page' = IF short_html(html, page.use_browser)
                 THEN [page EXCEPT !.pc = "sleep", !.use_browser = TRUE,
                                   !.fetches[Len(page.fetches)].outcome = "escalated"]
                 ELSE [page EXCEPT !.pc = "returned", !.result = html,
                                   !.fetches[Len(page.fetches)].outcome = "returned"]
    /\ UNCHANGED NotPage

\* The sleep before `continue` is over: next attempt.
PageSleepDone ==
    /\ page.pc = "sleep"
    /\ page' = FetchAttempt([page EXCEPT !.attempt_index = @ + 1])
    /\ UNCHANGED NotPage

\* The caller sets cancel_event while the strategy waits.
PageSetCancel ==
    /\ page.pc \in {"fetch", "sleep"}
    /\ ~page.cancel_event
    /\ page' = [page EXCEPT !.cancel_event = TRUE]
    /\ UNCHANGED NotPage

PageNext ==
    \/ CrawlSinglePage \/ FetchRaised \/ FetchReturned
    \/ PageSleepDone \/ PageSetCancel

\* ======================================================== batch strategy
\* strategies/batch.py: crawl_batch_with_progress over urls[1..n], one task
\* per URL behind a semaphore.
Concurrencies == {0, 1, 2}      \* max_concurrency arguments

\* asyncio.Semaphore(max(1, min(max_concurrency, 50)))
Semaphore(max_concurrency) == Max(1, Min(max_concurrency, 50))

\* The call up to `await asyncio.gather(*tasks)`: every task is created and
\* has not run yet.
NewBatch(n, max_concurrency, set) ==
    [pc |-> "gather", total |-> n, cancel_event |-> set,
     semaphore |-> Semaphore(max_concurrency),
     tasks |-> [i \in 1..n |-> "created"],
     completed |-> 0, results |-> <<>>,
     \* history: the progress_callback calls, in order
     calls |-> <<>>]

BatchIdle == [NewBatch(0, 1, FALSE) EXCEPT !.pc = "idle"]

NotBatch == <<ctx, job, emb, disc, sto, rec, api, scope, chk, page, mgr, meta, svc, pipe, mapper>>

\* Mutant of PageCrawled: a failed page is counted but not reported.
PageCrawled_SilentFailure(b, i, ok) ==
    [b EXCEPT !.tasks[i] = "done",
              !.semaphore = @ + 1,
              !.completed = @ + 1,
              !.results = IF ok THEN Append(@, i) ELSE @,
              !.calls = IF ok
                        THEN Append(@, [done |-> b.completed + 1,
                                        total |-> b.total, url |-> i])
                        ELSE @]

\* crawl_single after crawl_single_page returned a page (ok) or raised an
\* Exception: count the URL, call progress_callback(completed, total, url)
\* and leave the semaphore.  The callback of the service does not suspend.
PageCrawled(b, i, ok) ==
    [b EXCEPT !.tasks[i] = "done",
              !.semaphore = @ + 1,
              !.completed = @ + 1,
              !.results = IF ok THEN Append(@, i) ELSE @,
              !.calls = Append(@, [done |-> b.completed + 1,
                                   total |-> b.total, url |-> i])]

\* A task runs for the first time: return when the cancel flag is set, else
\* enter the semaphore if it is free and await crawl_single_page, else wait.
BatchTaskStart ==
    /\ bat.pc = "gather"
    /\ \E i \in DOMAIN bat.tasks :
         /\ bat.tasks[i] = "created"
         /\ bat' = IF bat.cancel_event
                   THEN [bat EXCEPT !.tasks[i] = "returned"]
                   ELSE IF bat.semaphore > 0
                   THEN [bat EXCEPT !.tasks[i] = "crawl", !.semaphore = @ - 1]
                   ELSE [bat EXCEPT !.tasks[i] = "acquire"]
    /\ UNCHANGED NotBatch

\* A waiting task gets the semaphore.
BatchTaskAcquire ==
    /\ bat.pc = "gather"
    /\ bat.semaphore > 0
    /\ \E i \in DOMAIN bat.tasks :
         /\ bat.tasks[i] = "acquire"
         /\ bat' = [bat EXCEPT !.tasks[i] = "crawl", !.semaphore = @ - 1]
    /\ UNCHANGED NotBatch

\* crawl_single_page of a task ends with a page or an Exception.
BatchTaskCrawled ==
    /\ bat.pc = "gather"
    /\ \E i \in DOMAIN bat.tasks, ok \in BOOLEAN :
         /\ bat.tasks[i] = "crawl"
         /\ bat' = PageCrawled(bat, i, ok)
    /\ UNCHANGED NotBatch

\* crawl_single_page of a task finds the cancel flag set and raises
\* CancelledError, which leaves the task.
BatchTaskCancelled ==
    /\ bat.pc = "gather"
    /\ bat.cancel_event
    /\ \E i \in DOMAIN bat.tasks :
         /\ bat.tasks[i] = "crawl"
         /\ bat' = [bat EXCEPT !.tasks[i] = "CancelledError",
                               !.semaphore = @ + 1]
    /\ UNCHANGED NotBatch

\* gather ends: with the results when every task returned, with the first
\* exception of a task otherwise; the finally clause cancels what is left.
BatchGathered ==
    /\ bat.pc = "gather"
    /\ \/ /\ \A i \in DOMAIN bat.tasks : bat.tasks[i] \in {"done", "returned"}
          /\ bat' = [bat EXCEPT !.pc = "returned"]
       \/ /\ \E i \in DOMAIN bat.tasks : bat.tasks[i] = "CancelledError"
          /\ bat' = [bat EXCEPT
                       !.pc = "CancelledError",
                       !.tasks = [i \in DOMAIN @ |->
                                    IF @[i] \in {"created", "acquire", "crawl"}
                                    THEN "cancelled" ELSE @[i]]]
    /\ UNCHANGED NotBatch

\* The caller sets cancel_event while the tasks run.
BatchSetCancel ==
    /\ bat.pc = "gather"
    /\ ~bat.cancel_event
    /\ bat' = [bat EXCEPT !.cancel_event = TRUE]
    /\ UNCHANGED NotBatch

BatchNext ==
    \/ BatchTaskStart \/ BatchTaskAcquire \/ BatchTaskCrawled
    \/ BatchTaskCancelled \/ BatchGathered \/ BatchSetCancel

\* ======================================================= crawler manager
\* crawler.py: CrawlerManager.initialize and cleanup, called by MaxCallers
\* coroutines that share one manager.
MaxCallers == 3

\* A manager after __init__, and callers that have not called yet.
\* has_crawl4ai: the import of AsyncWebCrawler succeeded.
NewManager(has_crawl4ai) ==
    [AsyncWebCrawler |-> has_crawl4ai,
     http_client |-> "None", crawler |-> "None",
     init_lock |-> 0,                  \* the caller that holds _init_lock
     closing |-> FALSE,                \* cleanup awaits aclose()
     callers |-> [i \in 1..MaxCallers |-> "idle"],
     \* history: objects constructed since the last cleanup; callers whose
     \* call a cleanup ran into; what each caller found when it returned
     clients_created |-> 0, crawlers_created |-> 0,
     cleaned |-> {}, found |-> [i \in 1..MaxCallers |-> <<>>]]

ManagerIdle == [NewManager(FALSE) EXCEPT
                  !.callers = [i \in 1..MaxCallers |-> "off"]]

NotManager == <<ctx, job, emb, disc, sto, rec, api, scope, chk, page, bat, meta, svc, pipe, mapper>>

\* Mutant of lock_free: initialize takes no lock.
lock_free_always(m) == TRUE

\* `async with self._init_lock` can be entered
lock_free(m) == m.init_lock = 0

\* The body of initialize under the lock, run by caller i up to its await of
\* start() or to its return: the client is constructed if there is none,
\* the crawler is constructed if the library is there and there is none,
\* and its reference is stored before start() is awaited.
InitializeBody(m, i) ==
    LET m1 == IF m.http_client = "None"
              THEN [m EXCEPT !.http_client = "client",
                             !.clients_created = @ + 1]
              ELSE m
    IN  IF m1.AsyncWebCrawler /\ m1.crawler = "None"
        THEN [m1 EXCEPT !.crawler = "starting",
                        !.crawlers_created = @ + 1,
                        !.init_lock = i,
                        !.callers[i] = "start"]
        ELSE [m1 EXCEPT !.init_lock = 0,
                        !.callers[i] = "returned",
                        !.found[i] = <<m1.http_client, m1.crawler>>]

\* A caller calls initialize(): it runs the body if the lock is free, else
\* it waits for the lock.
Initialize ==
    \E i \in 1..MaxCallers :
        /\ mgr.callers[i] = "idle"
        /\ mgr' = IF lock_free(mgr) THEN InitializeBody(mgr, i)
                  ELSE [mgr EXCEPT !.callers[i] = "acquire"]
        /\ UNCHANGED NotManager

\* A waiting caller gets the lock.
InitializeLocked ==
    \E i \in 1..MaxCallers :
        /\ mgr.callers[i] = "acquire"
        /\ lock_free(mgr)
        /\ mgr' = InitializeBody(mgr, i)
        /\ UNCHANGED NotManager

\* `await self._crawler.start()` returns or raises; the lock is released.
CrawlerStarted ==
    \E i \in 1..MaxCallers, ok \in BOOLEAN :
        /\ mgr.callers[i] = "start"
        /\ LET crawler == IF mgr.crawler = "None" THEN "None"
                           ELSE IF ok THEN "started" ELSE "failed"
           IN  mgr' = [mgr EXCEPT
                         !.crawler = crawler,
                         !.init_lock = 0,
                         !.callers[i] = IF ok THEN "returned" ELSE "raised",
                         !.found[i] = IF ok THEN <<mgr.http_client, crawler>>
                                      ELSE @]
        /\ UNCHANGED NotManager

\* The callers that are inside initialize()
Initializing(m) == {i \in 1..MaxCallers : m.callers[i] \in {"acquire", "start"}}

\* cleanup() is called (it takes no lock): with a client it awaits the
\* client's aclose(); without one it clears the crawler reference.
Cleanup ==
    /\ ~mgr.closing
    /\ mgr.http_client # "None" \/ mgr.crawler # "None"
    /\ mgr' = IF mgr.http_client # "None"
              THEN [mgr EXCEPT !.closing = TRUE,
                               !.cleaned = @ \cup Initializing(mgr)]
              ELSE [mgr EXCEPT !.crawler = "None",
                               !.crawlers_created = 0,
                               !.cleaned = @ \cup Initializing(mgr)]
    /\ UNCHANGED NotManager

\* aclose() returned: both references are cleared.
CleanupClosed ==
    /\ mgr.closing
    /\ mgr' = [mgr EXCEPT
                 !.closing = FALSE,
                 !.http_client = "None", !.crawler = "None",
                 !.clients_created = 0, !.crawlers_created = 0,
                 !.cleaned = @ \cup Initializing(mgr)]
    /\ UNCHANGED NotManager

ManagerNext ==
    Initialize \/ InitializeLocked \/ CrawlerStarted \/ Cleanup \/ CleanupClosed

\* ================================================= canonical metadata
\* metadata_repository.py: CanonicalMetadataStore._ensure_dataset on the
\* table claude_context.datasets.
ProjectIds == {"p1", "p2", "p3"}
DatasetNames == {Absent, "default", "docs", "web"}

\* uuid.uuid5(uuid.NAMESPACE_DNS, dataset_name)
dataset_id(dataset_name) == <<"uuid5", "dns", dataset_name>>

\* SELECT id FROM datasets WHERE project_id = $1 AND name = $2
SelectDataset(rows, project_id, dataset_name) ==
    {r \in rows : r.project_id = project_id /\ r.name = dataset_name}

\* The table's schema is not part of the sources; the specification gives
\* it as datasets(id uuid pk, project_id fk, name, unique(project_id, name)).
PrimaryKeyTaken(rows, row) == \E r \in rows : r.id = row.id

\* INSERT INTO datasets ... ON CONFLICT (project_id, name) DO NOTHING: a row
\* of the same pair makes it do nothing; the clause names no other
\* constraint, so a row of the same id alone violates the primary key.
InsertDataset(rows, row) ==
    IF SelectDataset(rows, row.project_id, row.name) # {}
    THEN [rows |-> rows, error |-> "none", inserted |-> FALSE]
    ELSE IF PrimaryKeyTaken(rows, row)
    THEN [rows |-> rows, error |-> "UniqueViolationError", inserted |-> FALSE]
    ELSE [rows |-> rows \cup {row}, error |-> "none", inserted |-> TRUE]

\* _ensure_dataset(conn, project_id, name): the table after it and what it
\* returns or raises.
ensure_dataset(rows, project_id, name) ==
    LET dataset_name == IF Truthy(name) THEN name ELSE "default"
        row == SelectDataset(rows, project_id, dataset_name)
    IN  IF row # {}
        THEN [rows |-> rows, error |-> "none", inserted |-> FALSE,
              id |-> (CHOOSE r \in row : TRUE).id]
        ELSE LET ins == InsertDataset(rows, [id |-> dataset_id(dataset_name),
                                             project_id |-> project_id,
                                             name |-> dataset_name])
                 again == SelectDataset(ins.rows, project_id, dataset_name)
             IN  IF ins.error # "none"
                 THEN [rows |-> rows, error |-> ins.error, inserted |-> FALSE,
                       id |-> <<>>]
                 ELSE IF again = {}
                 THEN [rows |-> rows, error |-> "RuntimeError",
                       inserted |-> FALSE, id |-> <<>>]
                 ELSE [rows |-> ins.rows, error |-> "none",
                       inserted |-> ins.inserted,
                       id |-> (CHOOSE r \in again : TRUE).id]

NoEnsure == [project_id |-> "", name |-> "", existed |-> FALSE,
             error |-> "none", inserted |-> FALSE, id |-> <<>>]

\* The datasets table and the last call of _ensure_dataset.
NewMeta == [pc |-> "ready", datasets |-> {}, last |-> NoEnsure]

MetaIdle == [NewMeta EXCEPT !.pc = "idle"]

NotMeta == <<ctx, job, emb, disc, sto, rec, api, scope, chk, page, bat, mgr, svc, pipe, mapper>>

\* One call of _ensure_dataset in a transaction of its own; a transaction
\* whose statement raised is rolled back.
EnsureDataset ==
    \E project_id \in ProjectIds, name \in DatasetNames :
        /\ meta.pc = "ready"
        /\ LET r == ensure_dataset(meta.datasets, project_id, name)
               dataset_name == IF Truthy(name) THEN name ELSE "default"
           IN  meta' = [meta EXCEPT
                          !.datasets = r.rows,
                          !.last = [project_id |-> project_id,
                                    name |-> dataset_name,
                                    existed |-> SelectDataset(meta.datasets,
                                                  project_id, dataset_name) # {},
                                    error |-> r.error,
                                    inserted |-> r.inserted,
                                    id |-> r.id]]
        /\ UNCHANGED NotMeta

MetaNext == EnsureDataset

\* ============================================ discovery, two jobs at once
\* CrawlingService holds one DiscoveryService (self.discovery), and every
\* job's task calls discover_files on it: the calls of two jobs share
\* self._checked_urls. The sites answer each request the same way whoever
\* asks: a candidate is served when its path is in web, a seed page names no
\* sitemap, nothing redirects.
Jobs == {1, 2}

\* Seeds of the two jobs: pages of the public site.
ServiceSeeds == {Url("http", "docs.example.com", p) : p \in {<<>>, <<"guide">>}}

\* The service after __init__ and the two calls not begun.
NewService(urls1, urls2, web) ==
    [checked_urls |-> {},
     calls |-> <<NewDisc(urls1, web), NewDisc(urls2, web)>>]

ServiceIdle ==
    [checked_urls |-> {}, calls |-> <<DiscIdle, DiscIdle>>]

NotService ==
    <<ctx, job, emb, disc, sto, rec, api, scope, chk, page, bat, mgr, meta,
      pipe, mapper>>

\* discover_files up to its first request, on its own set.
BeginCall(d) ==
    CandidateLoop([d EXCEPT !.checked = {},
                            !.candidates = AllCandidates(d.urls, 1)])

\* The call resumes with the site's answer to its pending request.
Answered(d) ==
    IF d.frame.kind = "meta" THEN FallbackLoop(d)
    ELSE Attempted(d, IF d.frame.url.path \in d.web THEN "ok" ELSE "status_error",
                   NoUrl)

RECURSIVE Alone(_)
\* The call run to its return with no other call on the service.
Alone(d) ==
    IF d.pc = "done" THEN d
    ELSE IF d.pc = "start" THEN Alone(BeginCall(d))
    ELSE Alone(Answered(d))

\* Mutant of checked_of: each call of discover_files has a set of its own.
checked_of_call(s, k) == s.calls[k].checked

\* self._checked_urls as call k reads it
checked_of(s, k) == s.checked_urls

\* Call k runs `step` from where it is suspended to its next await or its
\* return, reading and writing self._checked_urls.
Resume(s, k, step(_)) ==
    LET d == step([s.calls[k] EXCEPT !.checked = checked_of(s, k)])
    IN  [s EXCEPT !.calls[k] = d, !.checked_urls = d.checked]

\* Job k's task calls self.discovery.discover_files(urls).
ServiceDiscover ==
    \E k \in Jobs :
        /\ svc.calls[k].pc = "start"
        /\ svc' = Resume(svc, k, BeginCall)
        /\ UNCHANGED NotService

\* The response to the pending request of job k's call arrives.
ServiceAnswered ==
    \E k \in Jobs :
        /\ svc.calls[k].pc = "get"
        /\ svc' = Resume(svc, k, Answered)
        /\ UNCHANGED NotService

ServiceNext == ServiceDiscover \/ ServiceAnswered

\* ================================================== streaming pipeline
\* services/streaming_pipeline.py: StreamingPipeline.run, its feeder loop
\* and its chunk, embed and store workers over three asyncio queues, on one
\* event loop. A page is its page_index 1..n, the sentinel None is 0. The
\* workers of a stage are alike: a stage is the number of its workers
\* waiting in get(), the items of those suspended in put(), the pages of
\* those in an await on a service, and the number that left the loop. The
\* tasks the loop is to resume next are in ready, oldest first; a task runs
\* until its next suspension; the loop takes the answers of the services
\* between two passes over ready. A get that times out goes round the
\* worker loop and changes nothing.
MaxStream == 5
\* chunk_text raises on at most MaxRaises pages of a stream, and
\* storage_func raises while fewer than MaxRaises errors are recorded.
MaxRaises == 1
\* max_chunk_workers of __init__ is 1..MaxConfigured (default 4).
MaxConfigured == 4
\* asyncio.Queue(maxsize=50) and (maxsize=100), scaled to the model.
CHUNK_QUEUE_MAXSIZE == 1
EMBED_QUEUE_MAXSIZE == 2
STORE_QUEUE_MAXSIZE == 2
\* The workers that run() creates.
CHUNK_WORKERS == 4
EMBED_WORKERS == 2
STORE_WORKERS == 2

Sentinel == 0

\* The pipeline after __init__, once run() has created the workers, every
\* worker waits in its first get() and the feeder waits for the stream of
\* n pages; chunk_text raises on the pages of chunk_raises.
NewPipeline(n, max_chunk_workers, chunk_raises) ==
    [n |-> n, max_chunk_workers |-> max_chunk_workers,
     chunk_raises |-> chunk_raises,
     pc |-> "stream", crawled |-> 0, sentinels |-> 0, item |-> Sentinel,
     \* the tasks to resume, and how many of them the running pass of the
     \* event loop still resumes
     ready |-> <<>>, pass |-> 0,
     chunk_queue |-> <<>>, embed_queue |-> <<>>, store_queue |-> <<>>,
     \* Queue._putters of embed_queue and of store_queue
     embed_putters |-> <<>>, store_putters |-> <<>>,
     chunk_get |-> CHUNK_WORKERS, chunk_exit |-> 0,
     embed_get |-> EMBED_WORKERS, embed_busy |-> {}, embed_exit |-> 0,
     store_get |-> STORE_WORKERS, store_busy |-> {}, store_exit |-> 0,
     completed_items |-> <<>>, errors |-> {}]

PipelineIdle == [NewPipeline(0, CHUNK_WORKERS, {}) EXCEPT !.pc = "idle"]

NotPipeline ==
    <<ctx, job, emb, disc, sto, rec, api, scope, chk, page, bat, mgr, meta, svc,
      mapper>>

\* Queue.full()
Full(queue, maxsize) == Len(queue) >= maxsize

\* loop.call_soon: the task is resumed after those already in ready.
Wake(p, task, item) == [p EXCEPT !.ready = Append(@, [task |-> task, item |-> item])]

\* Queue.put_nowait: the item joins the queue and one waiting getter of the
\* next stage is woken.
PutChunkQueue(p, item) ==
    LET q == [p EXCEPT !.chunk_queue = Append(@, item)]
    IN  IF q.chunk_get = 0 THEN q
        ELSE Wake([q EXCEPT !.chunk_get = @ - 1], "chunk_get", Sentinel)

PutEmbedQueue(p, item) ==
    LET q == [p EXCEPT !.embed_queue = Append(@, item)]
    IN  IF q.embed_get = 0 THEN q
        ELSE Wake([q EXCEPT !.embed_get = @ - 1], "embed_get", Sentinel)

PutStoreQueue(p, item) ==
    LET q == [p EXCEPT !.store_queue = Append(@, item)]
    IN  IF q.store_get = 0 THEN q
        ELSE Wake([q EXCEPT !.store_get = @ - 1], "store_get", Sentinel)

\* Queue.get_nowait: the head leaves the queue and the first suspended
\* putter is woken; the only putter of chunk_queue is the feeder.
GetChunkQueue(p) ==
    LET q == [p EXCEPT !.chunk_queue = Tail(@)]
    IN  IF q.pc # "put" THEN q
        ELSE Wake([q EXCEPT !.pc = "woken"], "feeder_put", q.item)

GetEmbedQueue(p) ==
    LET q == [p EXCEPT !.embed_queue = Tail(@)]
    IN  IF q.embed_putters = <<>> THEN q
        ELSE Wake([q EXCEPT !.embed_putters = Tail(@)],
                  "chunk_put", Head(q.embed_putters))

GetStoreQueue(p) ==
    LET q == [p EXCEPT !.store_queue = Tail(@)]
    IN  IF q.store_putters = <<>> THEN q
        ELSE Wake([q EXCEPT !.store_putters = Tail(@)],
                  "embed_put", Head(q.store_putters))

\* for _ in range(self.max_chunk_workers): await self.chunk_queue.put(None)
SentinelsToSend(p) == p.max_chunk_workers

\* The feeder in await self.chunk_queue.put(item) and what follows it up to
\* the next suspension: a put on a full queue suspends; after a page the
\* async for waits for the stream; after the last sentinel run() waits in
\* the gather.
RECURSIVE FeederPut(_, _)
FeederPut(p, item) ==
    IF Full(p.chunk_queue, CHUNK_QUEUE_MAXSIZE)
    THEN [p EXCEPT !.pc = "put", !.item = item]
    ELSE LET q == PutChunkQueue(p, item)
         IN  IF item # Sentinel THEN [q EXCEPT !.pc = "stream"]
             ELSE IF q.sentinels + 1 < SentinelsToSend(q)
             THEN FeederPut([q EXCEPT !.sentinels = @ + 1], Sentinel)
             ELSE [q EXCEPT !.sentinels = @ + 1, !.pc = "gather"]

\* _chunk_worker from the top of its loop to its next suspension: the get
\* waits on an empty queue; the sentinel is passed on and ends the loop; a
\* page is chunked, or the raise of chunk_text is recorded, and the item is
\* put into embed_queue, where a full queue suspends the put.
RECURSIVE chunk_worker(_)
PutChunked(p, item) ==
    IF Full(p.embed_queue, EMBED_QUEUE_MAXSIZE)
    THEN [p EXCEPT !.embed_putters = Append(@, item)]
    ELSE IF item = Sentinel
    THEN [PutEmbedQueue(p, item) EXCEPT !.chunk_exit = @ + 1]
    ELSE chunk_worker(PutEmbedQueue(p, item))

chunk_worker(p) ==
    IF p.chunk_queue = <<>> THEN [p EXCEPT !.chunk_get = @ + 1]
    ELSE LET item == Head(p.chunk_queue)
             q == GetChunkQueue(p)
         IN  IF item \in q.chunk_raises
             THEN chunk_worker([q EXCEPT !.errors = @ \cup {item}])
             ELSE PutChunked(q, item)

\* _embed_worker likewise: the sentinel is passed on to store_queue and
\* ends the loop; with a page the worker awaits the embedding requests.
RECURSIVE embed_worker(_)
PutEmbedded(p, item) ==
    IF Full(p.store_queue, STORE_QUEUE_MAXSIZE)
    THEN [p EXCEPT !.store_putters = Append(@, item)]
    ELSE IF item = Sentinel
    THEN [PutStoreQueue(p, item) EXCEPT !.embed_exit = @ + 1]
    ELSE embed_worker(PutStoreQueue(p, item))

embed_worker(p) ==
    IF p.embed_queue = <<>> THEN [p EXCEPT !.embed_get = @ + 1]
    ELSE LET item == Head(p.embed_queue)
             q == GetEmbedQueue(p)
         IN  IF item = Sentinel THEN PutEmbedded(q, item)
             ELSE [q EXCEPT !.embed_busy = @ \cup {item}]

\* _store_worker likewise: the sentinel ends the loop; with a page the
\* worker awaits storage_func.
store_worker(p) ==
    IF p.store_queue = <<>> THEN [p EXCEPT !.store_get = @ + 1]
    ELSE LET item == Head(p.store_queue)
             q == GetStoreQueue(p)
         IN  IF item = Sentinel THEN [q EXCEPT !.store_exit = @ + 1]
             ELSE [q EXCEPT !.store_busy = @ \cup {item}]

\* storage_func returned: the item is appended to completed_items; it
\* raised: the failure is recorded in errors. The worker loops.
Stored(p, item, ok) ==
    store_worker([p EXCEPT
                 !.completed_items = IF ok THEN Append(@, item) ELSE @,
                 !.errors = IF ok THEN @ ELSE @ \cup {item}])

\* The crawler yields its next page to the async for of run(), or ends.
StreamNext ==
    /\ pipe.pc = "stream"
    /\ pipe.pass = 0
    /\ pipe' = IF pipe.crawled < pipe.n
               THEN Wake([pipe EXCEPT !.pc = "woken", !.crawled = @ + 1],
                         "feeder_put", pipe.crawled + 1)
               ELSE Wake([pipe EXCEPT !.pc = "woken"], "feeder_end", Sentinel)
    /\ UNCHANGED NotPipeline

\* The embedding requests of a page are answered (a failed request gives
\* zero vectors).
EmbedAnswered ==
    /\ pipe.pass = 0
    /\ \E item \in pipe.embed_busy :
         pipe' = Wake([pipe EXCEPT !.embed_busy = @ \ {item}], "embedded", item)
    /\ UNCHANGED NotPipeline

\* storage_func returns or raises.
StorageAnswered ==
    /\ pipe.pass = 0
    /\ \E item \in pipe.store_busy,
          ok \in (IF Cardinality(pipe.errors) < MaxRaises THEN BOOLEAN
                  ELSE {TRUE}) :
         pipe' = Wake([pipe EXCEPT !.store_busy = @ \ {item}],
                      IF ok THEN "stored" ELSE "store_raised", item)
    /\ UNCHANGED NotPipeline

\* The event loop resumes the oldest ready task, which runs to its next
\* suspension; a pass resumes the tasks that were ready when it began.
RunReady ==
    /\ pipe.ready # <<>>
    /\ LET task == Head(pipe.ready).task
           item == Head(pipe.ready).item
           p == [pipe EXCEPT
                   !.ready = Tail(@),
                   !.pass = IF @ = 0 THEN Len(pipe.ready) - 1 ELSE @ - 1]
       IN  pipe' =
             CASE task = "feeder_put" -> FeederPut(p, item)
               [] task = "feeder_end" ->
                    IF SentinelsToSend(p) > 0 THEN FeederPut(p, Sentinel)
                    ELSE [p EXCEPT !.pc = "gather"]
               [] task = "chunk_get" -> chunk_worker(p)
               [] task = "chunk_put" -> PutChunked(p, item)
               [] task = "embed_get" -> embed_worker(p)
               [] task = "embedded" -> PutEmbedded(p, item)
               [] task = "embed_put" -> PutEmbedded(p, item)
               [] task = "store_get" -> store_worker(p)
               [] task = "stored" -> Stored(p, item, TRUE)
               [] task = "store_raised" -> Stored(p, item, FALSE)
    /\ UNCHANGED NotPipeline

\* await asyncio.gather(*workers): every worker has left its loop; run
\* returns completed_items.
Gathered ==
    /\ pipe.pc = "gather"
    /\ pipe.chunk_exit = CHUNK_WORKERS
    /\ pipe.embed_exit = EMBED_WORKERS
    /\ pipe.store_exit = STORE_WORKERS
    /\ pipe' = [pipe EXCEPT !.pc = "returned"]
    /\ UNCHANGED NotPipeline

PipelineNext ==
    \/ StreamNext \/ EmbedAnswered \/ StorageAnswered \/ RunReady \/ Gathered

\* ===================================================== progress mapper
\* services/progress_mapper.py: ProgressMapper.map_progress. The mapping
\* start + int((phase_progress / 100) * range_size) is computed in binary64
\* (53 significant bits, round to nearest, ties to even); a float is its
\* significand, most significant bit first, and the exponent of that bit.
MANT_DIG == 53

\* PHASE_RANGES
PHASE_RANGES ==
    [initializing |-> <<0, 5>>, discovery |-> <<5, 15>>,
     crawling |-> <<15, 60>>, chunking |-> <<60, 70>>,
     summarizing |-> <<70, 80>>, embedding |-> <<80, 92>>,
     storing |-> <<92, 98>>, completed |-> <<98, 100>>,
     cancelled |-> <<0, 100>>, failed |-> <<0, 100>>]

FloatZero == [zero |-> TRUE, exp |-> 0, mant |-> <<>>]

\* The binary digits of a natural number, the value of a few digits, and
\* the n digits of a value below 2^n.
RECURSIVE NatBits(_)
NatBits(n) == IF n = 0 THEN <<>> ELSE NatBits(n \div 2) \o <<n % 2>>

RECURSIVE BitsNat(_)
BitsNat(b) ==
    IF b = <<>> THEN 0
    ELSE 2 * BitsNat(SubSeq(b, 1, Len(b) - 1)) + b[Len(b)]

NatDigits(v, n) == [i \in 1..n |-> (v \div 2^(n - i)) % 2]

\* 2^k modulo d.
RECURSIVE Pow2Mod(_, _)
Pow2Mod(k, d) ==
    IF k = 0 THEN 1 % d
    ELSE LET h == Pow2Mod(k \div 2, d)
         IN  (h * h * (IF k % 2 = 1 THEN 2 ELSE 1)) % d

\* The remainder after k binary digits of rem / d for 0 <= rem < d, and
\* those digits.
RemAfter(rem, d, k) == (rem * Pow2Mod(k, d)) % d

Digits(rem, d, k) == [i \in 1..k |-> (2 * RemAfter(rem, d, i - 1)) \div d]

\* n doubled until it reaches d, and the number of doublings (0 < n <= d).
RECURSIVE Scaled(_, _)
Scaled(n, d) == IF n >= d THEN n ELSE Scaled(2 * n, d)

RECURSIVE Shifts(_, _)
Shifts(n, d) == IF n >= d THEN 0 ELSE 1 + Shifts(2 * n, d)

\* b + 1 on the digits of b, where b has a digit 0.
Inc(b) ==
    LET last == CHOOSE i \in 1..Len(b) :
                    b[i] = 0 /\ \A k \in (i + 1)..Len(b) : b[k] = 1
    IN  [i \in 1..Len(b) |-> IF i < last THEN b[i] ELSE IF i = last THEN 1 ELSE 0]

\* Round to nearest, ties to even: MANT_DIG digits, the digit after them
\* and whether anything non-zero follows that digit.
RoundNearestEven(mant, exp, round_bit, sticky) ==
    IF round_bit = 1 /\ (sticky \/ mant[MANT_DIG] = 1)
    THEN IF \A i \in 1..MANT_DIG : mant[i] = 1
         THEN [zero |-> FALSE, exp |-> exp + 1,
               mant |-> <<1>> \o [i \in 1..(MANT_DIG - 1) |-> 0]]
         ELSE [zero |-> FALSE, exp |-> exp, mant |-> Inc(mant)]
    ELSE [zero |-> FALSE, exp |-> exp, mant |-> mant]

\* n / d of two ints with 0 <= n <= d: the float nearest to the quotient.
truediv(n, d) ==
    IF n = 0 THEN FloatZero
    ELSE LET rem == Scaled(n, d) - d
         IN  RoundNearestEven(<<1>> \o Digits(rem, d, MANT_DIG - 1),
                              0 - Shifts(n, d),
                              Digits(RemAfter(rem, d, MANT_DIG - 1), d, 1)[1],
                              RemAfter(rem, d, MANT_DIG) # 0)

\* The digits of b * r for MANT_DIG digits b and 0 < r < 2^13: the product
\* is taken on the top digit and the four groups of 13 digits below it.
MulBits(b, r) ==
    LET limb(k) == BitsNat(SubSeq(b, 13 * k - 11, 13 * k + 1))
        x4 == limb(4) * r
        x3 == limb(3) * r + x4 \div 2^13
        x2 == limb(2) * r + x3 \div 2^13
        x1 == limb(1) * r + x2 \div 2^13
    IN  NatBits(b[1] * r + x1 \div 2^13)
          \o NatDigits(x1 % 2^13, 13) \o NatDigits(x2 % 2^13, 13)
          \o NatDigits(x3 % 2^13, 13) \o NatDigits(x4 % 2^13, 13)

\* x * r of a float and an int r >= 0: the float nearest to the product.
float_mul(x, r) ==
    IF x.zero \/ r = 0 THEN FloatZero
    ELSE LET prod == MulBits(x.mant, r)
             more == Len(prod) - MANT_DIG
         IN  RoundNearestEven(SubSeq(prod, 1, MANT_DIG), x.exp + more,
                              IF more > 0 THEN prod[MANT_DIG + 1] ELSE 0,
                              \E i \in (MANT_DIG + 2)..Len(prod) : prod[i] = 1)

\* int(x) of a float x >= 0: the digits before the point.
int_of(x) ==
    IF x.zero \/ x.exp < 0 THEN 0 ELSE BitsNat(SubSeq(x.mant, 1, x.exp + 1))

\* int((phase_progress / 100) * range_size)
scale(phase_progress, range_size) ==
    int_of(float_mul(truediv(phase_progress, 100), range_size))

\* The values of int((phase_progress / 100) * range_size) for the range
\* sizes of PHASE_RANGES.
Scale ==
    [range_size \in {PHASE_RANGES[ph][2] - PHASE_RANGES[ph][1] : ph \in DOMAIN PHASE_RANGES}
        |-> [phase_progress \in 0..100 |-> scale(phase_progress, range_size)]]

\* An optional int is a sequence of at most one int; None is the empty one.
NoValue == <<>>
\* The arguments of the calls: the phases of PHASE_RANGES and one that is
\* not among them; phase_progress in and out of 0..100; force_value.
CallPhases == DOMAIN PHASE_RANGES \cup {"indexing"}
CallProgress == {0 - 10, 29, 58, 130}
CallForce == {NoValue, <<40>>, <<100>>}

\* ProgressMapper.__init__; with the mapper go the value its last call
\* returned and that call: its arguments and the mapper it found.
NewMapper ==
    [last_overall_progress |-> 0, current_phase |-> "initializing",
     returned |-> NoValue, call |-> <<>>]

MapperIdle == [NewMapper EXCEPT !.current_phase = "idle"]

NotMapper ==
    <<ctx, job, emb, disc, sto, rec, api, scope, chk, page, bat, mgr, meta, svc,
      pipe>>

\* map_progress(phase, phase_progress, force_value=...): the overall value
\* it returns and the mapper it leaves.
map_progress(s, phase, phase_progress, force_value) ==
    IF force_value # NoValue
    THEN LET overall == Max(force_value[1], s.last_overall_progress)
         IN  [overall |-> overall,
              self |-> [s EXCEPT !.last_overall_progress = overall,
                                 !.current_phase = phase]]
    ELSE IF phase \notin DOMAIN PHASE_RANGES
    THEN [overall |-> s.last_overall_progress, self |-> s]
    ELSE LET start == PHASE_RANGES[phase][1]
             end == PHASE_RANGES[phase][2]
             clamped == Max(0, Min(100, phase_progress))
             overall == Max(start + Scale[end - start][clamped],
                            s.last_overall_progress)
         IN  [overall |-> overall,
              self |-> [s EXCEPT !.last_overall_progress = overall,
                                 !.current_phase = phase]]

\* A caller calls map_progress.
MapProgress ==
    /\ mapper.current_phase # "idle"
    /\ \E phase \in CallPhases, phase_progress \in CallProgress,
          force_value \in CallForce :
         LET out == map_progress(mapper, phase, phase_progress, force_value)
         IN  mapper' = [out.self EXCEPT
                          !.returned = <<out.overall>>,
                          !.call = <<[phase |-> phase,
                                      phase_progress |-> phase_progress,
                                      force_value |-> force_value,
                                      before |-> [mapper EXCEPT !.call = <<>>]]>>]
    /\ UNCHANGED NotMapper

MapperNext == MapProgress

\* ====================================================== specifications
\* The embedding router alone.
EmbedInit ==
    /\ ctx = IdleCtx
    /\ job = NewJob
    /\ \E chunks \in ChunkLists, parallel \in BOOLEAN :
         emb = NewEmb(chunks, parallel)
    /\ disc = DiscIdle
    /\ sto = StoIdle
    /\ rec = RecIdle
    /\ api = ApiIdle
    /\ scope = ScopeIdle
    /\ chk = ChkIdle
    /\ page = PageIdle
    /\ bat = BatchIdle
    /\ mgr = ManagerIdle
    /\ meta = MetaIdle
    /\ svc = ServiceIdle
    /\ pipe = PipelineIdle
    /\ mapper = MapperIdle

EmbedNext ==
    \/ EmbedChunks
    \/ \E m \in Hints : RequestEmbeddings(m)
    \/ \E m \in Hints : RetrySleepDone(m)
    \/ ParRoundDone \/ EmbedSingleReturn \/ SeqGteDone \/ SeqCoderankDone

EmbedSpec == EmbedInit /\ [][EmbedNext]_vars

\* Discovery alone.
DiscInit ==
    /\ ctx = IdleCtx
    /\ job = NewJob
    /\ emb = EmbIdle
    /\ \E urls \in UNION {[1..n -> Seeds] : n \in 1..MaxSeeds} :
       \E web \in Webs :
         disc = NewDisc(urls, web)
    /\ sto = StoIdle
    /\ rec = RecIdle
    /\ api = ApiIdle
    /\ scope = ScopeIdle
    /\ chk = ChkIdle
    /\ page = PageIdle
    /\ bat = BatchIdle
    /\ mgr = ManagerIdle
    /\ meta = MetaIdle
    /\ svc = ServiceIdle
    /\ pipe = PipelineIdle
    /\ mapper = MapperIdle

DiscNext == DiscoverFiles \/ FollowRedirect \/ AttemptDone \/ MetaFetched

DiscSpec == DiscInit /\ [][DiscNext]_vars

\* The stores over MaxRuns runs of one job.
StoreInit ==
    /\ ctx = IdleCtx
    /\ job = NewJob
    /\ emb = EmbIdle
    /\ disc = DiscIdle
    /\ \E chunks \in StoreInputs : sto = NewSto(chunks)
    /\ rec = RecIdle
    /\ api = ApiIdle
    /\ scope = ScopeIdle
    /\ chk = ChkIdle
    /\ page = PageIdle
    /\ bat = BatchIdle
    /\ mgr = ManagerIdle
    /\ meta = MetaIdle
    /\ svc = ServiceIdle
    /\ pipe = PipelineIdle
    /\ mapper = MapperIdle

StoreSpec == StoreInit /\ [][StoNext]_vars

\* The recursive strategy alone.
RecInit ==
    /\ ctx = IdleCtx
    /\ job = NewJob
    /\ emb = EmbIdle
    /\ disc = DiscIdle
    /\ sto = StoIdle
    /\ \E seed_urls \in SUBSET SeedPool :
       \E max_depth \in 1..MaxDepth, max_pages \in 0..MaxPages :
       \E same_domain_only \in BOOLEAN, include_links \in BOOLEAN :
       \E set \in BOOLEAN :
         /\ Cardinality(seed_urls) \in 1..MaxRecSeeds
         /\ rec = NewRec(seed_urls, max_depth, max_pages, same_domain_only,
                         include_links, set)
    /\ api = ApiIdle
    /\ scope = ScopeIdle
    /\ chk = ChkIdle
    /\ page = PageIdle
    /\ bat = BatchIdle
    /\ mgr = ManagerIdle
    /\ meta = MetaIdle
    /\ svc = ServiceIdle
    /\ pipe = PipelineIdle
    /\ mapper = MapperIdle

RecSpec == RecInit /\ [][RecNext]_vars

\* The HTTP handlers over the registry.
ApiInit ==
    /\ ctx = IdleCtx
    /\ job = NewJob
    /\ emb = EmbIdle
    /\ disc = DiscIdle
    /\ sto = StoIdle
    /\ rec = RecIdle
    /\ api = NewApi
    /\ scope = ScopeIdle
    /\ chk = ChkIdle
    /\ page = PageIdle
    /\ bat = BatchIdle
    /\ mgr = ManagerIdle
    /\ meta = MetaIdle
    /\ svc = ServiceIdle
    /\ pipe = PipelineIdle
    /\ mapper = MapperIdle

ApiSpec == ApiInit /\ [][ApiNext]_vars

\* resolve_scope over its argument space.
ScopeInit ==
    /\ ctx = IdleCtx
    /\ job = NewJob
    /\ emb = EmbIdle
    /\ disc = DiscIdle
    /\ sto = StoIdle
    /\ rec = RecIdle
    /\ api = ApiIdle
    /\ \E project \in Names, dataset \in Names :
       \E requested_scope \in RequestedScopes :
         scope = NewScope(project, dataset, requested_scope)
    /\ chk = ChkIdle
    /\ page = PageIdle
    /\ bat = BatchIdle
    /\ mgr = ManagerIdle
    /\ meta = MetaIdle
    /\ svc = ServiceIdle
    /\ pipe = PipelineIdle
    /\ mapper = MapperIdle

ScopeSpec == ScopeInit /\ [][ScopeNext]_vars

\* chunk_text over documents and valid (chunk_size, chunk_overlap).
ChkInit ==
    /\ ctx = IdleCtx
    /\ job = NewJob
    /\ emb = EmbIdle
    /\ disc = DiscIdle
    /\ sto = StoIdle
    /\ rec = RecIdle
    /\ api = ApiIdle
    /\ scope = ScopeIdle
    /\ \E text \in PlainDocs \cup FencedDocs :
       \E chunk_size \in 1..MaxChunkSize :
       \E chunk_overlap \in 0..(chunk_size - 1) :
         chk = NewChk(text, chunk_size, chunk_overlap)
    /\ page = PageIdle
    /\ bat = BatchIdle
    /\ mgr = ManagerIdle
    /\ meta = MetaIdle
    /\ svc = ServiceIdle
    /\ pipe = PipelineIdle
    /\ mapper = MapperIdle

ChkSpec == ChkInit /\ [][ChkNext]_vars

\* crawl_single_page alone.
PageInit ==
    /\ ctx = IdleCtx
    /\ job = NewJob
    /\ emb = EmbIdle
    /\ disc = DiscIdle
    /\ sto = StoIdle
    /\ rec = RecIdle
    /\ api = ApiIdle
    /\ scope = ScopeIdle
    /\ chk = ChkIdle
    /\ \E prefer_browser \in BOOLEAN, doc_site \in BOOLEAN, set \in BOOLEAN :
         page = NewPage(prefer_browser, doc_site, set)
    /\ bat = BatchIdle
    /\ mgr = ManagerIdle
    /\ meta = MetaIdle
    /\ svc = ServiceIdle
    /\ pipe = PipelineIdle
    /\ mapper = MapperIdle

PageSpec == PageInit /\ [][PageNext]_vars

\* crawl_batch_with_progress alone.
BatchInit ==
    /\ ctx = IdleCtx
    /\ job = NewJob
    /\ emb = EmbIdle
    /\ disc = DiscIdle
    /\ sto = StoIdle
    /\ rec = RecIdle
    /\ api = ApiIdle
    /\ scope = ScopeIdle
    /\ chk = ChkIdle
    /\ page = PageIdle
    /\ \E n \in 1..MaxUrls, max_concurrency \in Concurrencies, set \in BOOLEAN :
         bat = NewBatch(n, max_concurrency, set)
    /\ mgr = ManagerIdle
    /\ meta = MetaIdle
    /\ svc = ServiceIdle
    /\ pipe = PipelineIdle
    /\ mapper = MapperIdle

BatchSpec == BatchInit /\ [][BatchNext]_vars

\* CrawlerManager under concurrent initialize() calls.
ManagerInit ==
    /\ ctx = IdleCtx
    /\ job = NewJob
    /\ emb = EmbIdle
    /\ disc = DiscIdle
    /\ sto = StoIdle
    /\ rec = RecIdle
    /\ api = ApiIdle
    /\ scope = ScopeIdle
    /\ chk = ChkIdle
    /\ page = PageIdle
    /\ bat = BatchIdle
    /\ \E has_crawl4ai \in BOOLEAN : mgr = NewManager(has_crawl4ai)
    /\ meta = MetaIdle
    /\ svc = ServiceIdle
    /\ pipe = PipelineIdle
    /\ mapper = MapperIdle

ManagerSpec == ManagerInit /\ [][ManagerNext]_vars

\* The canonical metadata store under calls of _ensure_dataset.
MetaInit ==
    /\ ctx = IdleCtx
    /\ job = NewJob
    /\ emb = EmbIdle
    /\ disc = DiscIdle
    /\ sto = StoIdle
    /\ rec = RecIdle
    /\ api = ApiIdle
    /\ scope = ScopeIdle
    /\ chk = ChkIdle
    /\ page = PageIdle
    /\ bat = BatchIdle
    /\ mgr = ManagerIdle
    /\ meta = NewMeta
    /\ svc = ServiceIdle
    /\ pipe = PipelineIdle
    /\ mapper = MapperIdle

MetaSpec == MetaInit /\ [][MetaNext]_vars

\* Two jobs whose discovery runs on the shared DiscoveryService.
ServiceInit ==
    /\ ctx = IdleCtx
    /\ job = NewJob
    /\ emb = EmbIdle
    /\ disc = DiscIdle
    /\ sto = StoIdle
    /\ rec = RecIdle
    /\ api = ApiIdle
    /\ scope = ScopeIdle
    /\ chk = ChkIdle
    /\ page = PageIdle
    /\ bat = BatchIdle
    /\ mgr = ManagerIdle
    /\ meta = MetaIdle
    /\ \E u1, u2 \in ServiceSeeds, web \in Webs :
         svc = NewService(<<u1>>, <<u2>>, web)
    /\ pipe = PipelineIdle
    /\ mapper = MapperIdle

ServiceSpec == ServiceInit /\ [][ServiceNext]_vars

\* StreamingPipeline.run on a finite crawler stream.
PipelineInit ==
    /\ ctx = IdleCtx
    /\ job = NewJob
    /\ emb = EmbIdle
    /\ disc = DiscIdle
    /\ sto = StoIdle
    /\ rec = RecIdle
    /\ api = ApiIdle
    /\ scope = ScopeIdle
    /\ chk = ChkIdle
    /\ page = PageIdle
    /\ bat = BatchIdle
    /\ mgr = ManagerIdle
    /\ meta = MetaIdle
    /\ svc = ServiceIdle
    /\ \E n \in 0..MaxStream, max_chunk_workers \in 1..MaxConfigured :
         \E chunk_raises \in {r \in SUBSET (1..n) : Cardinality(r) <= MaxRaises} :
            pipe = NewPipeline(n, max_chunk_workers, chunk_raises)
    /\ mapper = MapperIdle

PipelineSpec == PipelineInit /\ [][PipelineNext]_vars

\* One ProgressMapper and the calls of map_progress on it.
MapperInit ==
    /\ ctx = IdleCtx
    /\ job = NewJob
    /\ emb = EmbIdle
    /\ disc = DiscIdle
    /\ sto = StoIdle
    /\ rec = RecIdle
    /\ api = ApiIdle
    /\ scope = ScopeIdle
    /\ chk = ChkIdle
    /\ page = PageIdle
    /\ bat = BatchIdle
    /\ mgr = ManagerIdle
    /\ meta = MetaIdle
    /\ svc = ServiceIdle
    /\ pipe = PipelineIdle
    /\ mapper = NewMapper

MapperSpec == MapperInit /\ [][MapperNext]_vars

\* The crawl job.
Init ==
    /\ JobInit
    /\ emb = EmbIdle
    /\ disc = DiscIdle
    /\ sto = StoIdle
    /\ rec = RecIdle
    /\ api = ApiIdle
    /\ scope = ScopeIdle
    /\ chk = ChkIdle
    /\ page = PageIdle
    /\ bat = BatchIdle
    /\ mgr = ManagerIdle
    /\ meta = MetaIdle
    /\ svc = ServiceIdle
    /\ pipe = PipelineIdle
    /\ mapper = MapperIdle

Next == JobNext

Spec == Init /\ [][Next]_vars

\* Cancellation of a crawl: either the crawl job runs and is cancelled by
\* cancel(), or a call of the recursive strategy runs and its cancel flag is
\* set while it waits for the fetcher.
CancelInit == Init \/ RecInit

CancelNext == (rec.pc = "idle" /\ JobNext) \/ RecNext

CancelSpec == CancelInit /\ [][CancelNext]_vars

\* ------------------------------------------------------------ claims
\* ceil(n / HYBRID_PROCESS_BATCH): the batches of the hybrid loop.
NumBatches == (ctx.n + HYBRID_PROCESS_BATCH - 1) \div HYBRID_PROCESS_BATCH

\* C1: the job's progress never decreases: no step of the job (discovery,
\* crawl callbacks, sequential stages, hybrid batches, stage failures,
\* cancellation) leaves progress below its previous value.
C1_ProgressMonotonic == [][job'.progress >= job.progress]_vars

\* C1 witness: in the second hybrid batch a report lower than the progress
\* already reached has been made and absorbed.
C1_Witness ==
    /\ Hybrid /\ job.batches = 2 /\ job.pc = "h_crawl"
    /\ job.proposed < job.progress

\* C2 (as claimed): a job cancelled while its status was 'running' ends with
\* status 'cancelled' once its task has ended, and is never 'completed'.
C2_CancelEndsCancelled ==
    job.cancelled_running =>
        /\ job.status # "completed"
        /\ (job.pc \in {"done", "dead"} => job.status = "cancelled")

\* C3: an exception of a tail stage never fails the job; unless cancelled the
\* job ends 'completed'; a completed hybrid job has dispatched every batch,
\* also those after the batch whose stage raised.
C3_TailFailureAbsorbed ==
    /\ job.tail_exc # {} => job.status # "failed"
    /\ (job.tail_exc # {} /\ job.pc = "done" /\ ~job.cancelled_running)
           => job.status = "completed"
    /\ (Hybrid /\ job.status = "completed") => job.batches = NumBatches

\* C3 witness: the embedding of hybrid batch 1 raised and batch 2 has been
\* crawled, chunked and embedded and is being stored.
C3_Witness ==
    /\ Hybrid /\ job.exc_batch = 1 /\ "embedding" \in job.tail_exc
    /\ job.batches = 2 /\ job.pc = "st_pg" /\ job.stored > 0
    /\ job.status = "running"

\* C4 (as claimed): chunks whose embedding stage raised get the zero-vector
\* fallback and reach the storing stage: in a completed job every such chunk
\* was handed to the vector stores.
C4_ZeroVectorFallbackStored ==
    job.status = "completed" => job.fallback_stored = job.emb_raised

\* C10 (as claimed): with every stage and both stores succeeding the final
\* chunks_stored is the number of chunks produced; with exactly one store
\* succeeding _store_chunks returns that store's count.
C10_StoredCountsChunksOnce ==
    /\ (job.status = "completed" /\ job.clean)
           => job.chunks_stored = job.chunks_produced
    /\ (job.pc \in {"st_canon", "st_close"} /\ job.pg_ok # job.qd_ok)
           => job.ret = job.stored

\* C5: when the router returns, whichever strategy it selected, the result
\* has the length of the chunk list and every entry i for which the service
\* answered is the vector of chunk i's text from the model of chunk i's hint
\* (an entry whose request failed for good exists only in unified parallel
\* batching; C6 is about it).
C5_PositionalAlignment ==
    emb.pc = "returned" =>
        /\ Len(emb.embeddings) = Len(emb.chunks)
        /\ \A i \in 1..Len(emb.chunks) :
             i \notin emb.failed =>
                emb.embeddings[i] = Vec(emb.chunks[i].model_hint, emb.chunks[i].text)
        /\ emb.failed # {} => emb.strategy = "parallel"

\* C5 witness: unified parallel batching returned after two rounds with every
\* request answered, for a list that starts with a code chunk followed by a
\* text chunk with another text.
C5_Witness ==
    /\ emb.pc = "returned" /\ emb.strategy = "parallel"
    /\ emb.round_num = 2 /\ emb.failed = {}
    /\ emb.chunks[1].model_hint = "coderank" /\ emb.chunks[2].model_hint = "gte"
    /\ emb.chunks[1].text # emb.chunks[2].text

\* C6: when unified parallel batching returns, exactly the positions of the
\* batches whose request failed hold a zero vector of dimension 768, every
\* other position holds its real vector, and no position is unset.
C6_FailedBatchZeroFilled ==
    (emb.pc = "returned" /\ emb.strategy = "parallel") =>
        \A i \in 1..Len(emb.chunks) :
            /\ emb.embeddings[i] # None
            /\ i \in emb.failed =>
                 (emb.embeddings[i] = ZeroVector /\ emb.embeddings[i].dim = 768)
            /\ i \notin emb.failed =>
                 emb.embeddings[i] = Vec(emb.chunks[i].model_hint, emb.chunks[i].text)

\* C6 witness: the text model's request of round 1 failed after its retries,
\* the code model's batch of round 1 and the text model's batch of round 2
\* were answered, and the router returned.
C6_Witness ==
    /\ emb.pc = "returned" /\ emb.strategy = "parallel" /\ emb.round_num = 2
    /\ emb.failed = Positions(Take(Select(emb.chunks, "gte", 1), EMBED_BATCH))
    /\ Len(Select(emb.chunks, "gte", 1)) > EMBED_BATCH
    /\ \A i \in 1..Len(emb.chunks) : i \notin emb.failed => emb.embeddings[i] # ZeroVector

\* C7 (as claimed): every request sent during discover_files (candidate
\* probe, nested sitemap probe, redirect hop, HTML fallback fetch of the
\* seed) targets an http(s) URL whose host passed _validate_hostname before
\* the request was made, so no request goes to a private, loopback,
\* link-local or metadata address.
C7_EveryRequestValidated ==
    \A r \in disc.requests :
        /\ r.validated
        /\ validate_hostname(Url(r.scheme, r.host, <<>>))

\* C8 (as claimed): after the same job has run twice, every call succeeding,
\* the relational store, the point store and the canonical chunks table each
\* hold as many chunks as after the first run.
C8_SecondRunSameCounts ==
    (sto.pc = "finished" /\ sto.clean) =>
        /\ Cardinality(sto.postgres) = sto.first.postgres
        /\ Cardinality(sto.qdrant) = sto.first.qdrant
        /\ Cardinality(sto.canonical) = sto.first.canonical

\* C9 (as claimed): the id a StoredChunk gets for the vector stores is a
\* function of (page, chunk_index, text): any two runs assign the same chunk
\* the same id.
C9_StoredChunkIdDeterministic ==
    \A a, b \in sto.assigned : a.chunk = b.chunk => a.id = b.id

\* C11 (as claimed): when _store_chunks is through with the vector stores
\* and exactly one of them raised (at initialization, collection creation or
\* insert), insert_chunks of the other store was called and its count is the
\* value returned.
C11_StoresIndependent ==
    job.pc = "st_close" =>
        /\ job.store_failed = {"postgres"} =>
              (job.qd_attempted /\ job.ret = job.qdrant_count)
        /\ job.store_failed = {"qdrant"} =>
              (job.pg_attempted /\ job.ret = job.postgres_count)

\* C12 (as claimed): a job cancelled with healthy stores leaves no batch
\* half-written: the chunks of the batch in flight are in both vector stores
\* or in neither, and in the canonical table only if in both vector stores.
C12_NoHalfWrittenBatch ==
    (/\ job.status = "cancelled"
     /\ job.store_failed = {}
     /\ Min(job.nchunks, Min(job.nsumm, job.nemb)) > 0) =>
        /\ job.pg_ok = job.qd_ok
        /\ job.canon_written => (job.pg_ok /\ job.qd_ok)

\* C13
\* Once the cancel flag is set no further crawl batch is dispatched: the
\* hybrid loop of the job starts no further batch, and the recursive strategy
\* submits no further batch to the fetcher, starts no further depth level and
\* appends no further page to its results.
C13_NoDispatchAfterCancel ==
    [][/\ job.cancel_event => job'.batches = job.batches
       /\ rec.cancel_event =>
             /\ rec'.batches = rec.batches
             /\ rec'.submitted = rec.submitted
             /\ rec'.levels = rec.levels
             /\ rec'.results = rec.results]_vars

\* C13 witness
\* The flag was set while results of a batch were outstanding and a further
\* batch of the level was waiting; the strategy raised at the next result.
C13_Witness ==
    /\ rec.pc = "cancelled"
    /\ rec.stream # {}
    /\ rec.urls_to_crawl # {}
    /\ Len(rec.results) > 0

\* C14
\* With max_pages > 0 the recursive strategy never holds more than max_pages
\* collected PageResults, whatever the number of seeds and the order in which
\* the results of a batch stream back; with max_pages = 0 no page-cap test ever
\* stops a loop of the crawl.
C14_PageCap ==
    /\ rec.max_pages > 0 => Len(rec.results) <= rec.max_pages
    /\ rec.max_pages = 0 => ~rec.capped

\* C14 witness
\* More seeds than max_pages were submitted in the first level and the cap
\* stopped the stream with exactly max_pages pages collected.
C14_Witness ==
    /\ rec.max_pages > 0
    /\ rec.depth = 0
    /\ Cardinality(rec.submitted) > rec.max_pages
    /\ Len(rec.results) = rec.max_pages
    /\ rec.capped

\* C15 (as claimed)
\* The recursive strategy never places a URL whose path ends in a binary
\* extension into the seed frontier or a next-level frontier and never
\* submits such a URL to the fetcher.
C15_NoBinaryEnqueued ==
    \A u \in rec.current_urls \cup rec.next_level_urls \cup rec.submitted :
        ~is_binary_file(u)

\* C16
\* With same_domain_only set, every collected PageResult has a URL whose host
\* is the host of a seed URL, and so has every URL of a next-level frontier.
C16_SameDomainOnly ==
    rec.same_domain_only =>
        LET hosts == {s.host : s \in rec.seed_urls}
        IN  /\ \A i \in 1..Len(rec.results) : rec.results[i].host \in hosts
            /\ \A u \in rec.next_level_urls \cup rec.current_urls : u.host \in hosts

\* C16 witness
\* A collected page linked to other.net, to another port of example.org and
\* to /faq on example.org; only example.org was seeded and only /faq entered
\* the next-level frontier.
C16_Witness ==
    /\ rec.same_domain_only
    /\ {s.host : s \in rec.seed_urls} = {"example.org"}
    /\ Len(rec.results) > 0
    /\ rec.next_level_urls = {PageUrl("example.org", "", "faq", "", "")}

\* C17 (as claimed)
\* For a completed job, sequential or hybrid, get_result returns exactly the
\* pages the job crawled; for the job in any other status it answers 409, and
\* for an id no job has it answers 404.
C17_ResultIsCrawledPages ==
    LET result == get_result(JobStates, "job")
        crawled == IF Hybrid THEN job.processed_count ELSE job.ndocs
    IN  /\ get_result(JobStates, "nobody").code = 404
        /\ job.status # "completed" => result.code = 409
        /\ job.status = "completed" =>
              (result.code = 200 /\ result.total_pages = crawled)

\* C18
\* POST /crawl with a non-empty URL list registers exactly one new job, in
\* status 'running', and answers 200 with its progress id; with an empty list
\* it answers 400 and registers nothing; and a registered progress id is
\* never unknown to get_progress afterwards.
C18_CrawlRegistersOneJob ==
    [][/\ (api'.requests # api.requests /\ api'.last.op = "crawl") =>
            IF api'.last.urls = 0
            THEN api'.last.code = 400 /\ api'.states = api.states
            ELSE /\ api'.last.code = 200
                 /\ api'.last.status = "running"
                 /\ api'.last.progress_id \notin DOMAIN api.states
                 /\ DOMAIN api'.states =
                        DOMAIN api.states \cup {api'.last.progress_id}
                 /\ api'.states[api'.last.progress_id].status = "running"
                 /\ \A p \in DOMAIN api.states : api'.states[p] = api.states[p]
       /\ \A p \in ProgressIds :
            get_progress(api.states, p) # Unknown =>
                get_progress(api'.states, p) # Unknown]_vars

\* C18 witness
\* A job was registered by POST /crawl, its task has ended, and a later
\* GET /progress for its id was answered 200 with the final status.
C18_Witness ==
    /\ api.last.op = "progress"
    /\ api.last.code = 200
    /\ api.last.status = "failed"
    /\ api.last.progress_id \notin api.tasks

\* C19
\* resolve_scope returns GLOBAL when 'global' is requested; otherwise, with a
\* project and a dataset, LOCAL unless 'project' is requested (then PROJECT);
\* PROJECT with a project and no dataset; GLOBAL with no project.
C19_ResolveScope ==
    scope.pc = "returned" =>
        scope.result =
            IF scope.requested_scope = "global" THEN "global"
            ELSE IF Truthy(scope.project) /\ Truthy(scope.dataset)
                 THEN IF scope.requested_scope = "project" THEN "project"
                      ELSE "local"
            ELSE IF Truthy(scope.project) THEN "project"
            ELSE "global"

\* C19 witness
\* Project and dataset are given and 'project' is requested: PROJECT.
C19_Witness ==
    /\ scope.pc = "returned"
    /\ Truthy(scope.project) /\ Truthy(scope.dataset)
    /\ scope.requested_scope = "project"
    /\ scope.result = "project"

\* C20 (as claimed)
\* discover_files returns the most preferred file available across all
\* candidates of all seeds: an llms manifest if any llms candidate is
\* fetchable, otherwise a sitemap if any sitemap candidate is fetchable,
\* otherwise robots.txt if fetchable, otherwise nothing. (Runs in which only
\* candidates were requested: no redirect, no nested sitemap, no HTML
\* fallback; a candidate is fetchable when its host passes validation and
\* the site serves its path.)
C20_MostPreferredFile ==
    (disc.pc = "done" /\ \A r \in disc.requests : r.via = "candidate") =>
        LET fetchable == {disc.candidates[k] : k \in
                            {i \in 1..Len(disc.candidates) :
                               /\ AttemptBegin(disc.candidates[i]) = "request"
                               /\ disc.candidates[i].path \in disc.web}}
        IN  IF \E c \in fetchable : is_llms_variant(c)
            THEN disc.found /\ is_llms_variant(disc.result)
            ELSE IF \E c \in fetchable : is_sitemap(c)
            THEN disc.found /\ is_sitemap(disc.result)
            ELSE IF \E c \in fetchable : is_robots_txt(c)
            THEN disc.found /\ is_robots_txt(disc.result)
            ELSE ~disc.found

\* HYBRID_MAX_MEMORY_PAGES = int(os.getenv("HYBRID_MAX_MEMORY_PAGES", "100")):
\* the values the setting can take.  No statement of the service reads it,
\* so a run does not depend on it and it is no part of the state.
HYBRID_MAX_MEMORY_PAGES == 1..MaxUrls

\* batch_documents of the hybrid loop: the pages _execute_crawl_batch
\* returned for the current batch, held until _store_chunks has returned.
batch_documents ==
    IF Hybrid /\ job.pc \in {"h_embed", "st_meta", "st_init", "st_pg",
                             "st_qd", "st_close"}
    THEN job.ndocs ELSE 0

\* C21: in hybrid mode the number of pages crawled and not yet through the
\* storing stage never exceeds HYBRID_MAX_MEMORY_PAGES, whatever the values
\* of HYBRID_PROCESS_BATCH and HYBRID_MAX_MEMORY_PAGES.
C21_ResidentPagesBounded ==
    \A max_memory_pages \in HYBRID_MAX_MEMORY_PAGES :
        batch_documents <= max_memory_pages

\* A whole batch of HYBRID_PROCESS_BATCH pages is resident while the limit
\* is configured below the batch size.
C21_Counterexample ==
    /\ batch_documents = HYBRID_PROCESS_BATCH
    /\ \E max_memory_pages \in HYBRID_MAX_MEMORY_PAGES :
           max_memory_pages < batch_documents

\* The tail of a hybrid batch: `await self._embed_chunks(...)` up to the
\* return of `await self._store_chunks(...)`.  (Chunking has no suspension
\* point of its own in the job and is part of the step that ends the crawl.)
TailStages == {"h_embed", "st_meta", "st_init", "st_pg", "st_qd", "st_close"}

\* A step that dispatches the crawl of the next batch (one more
\* _execute_crawl_batch call) while the loop variable batch_start still
\* names the batch whose tail is running.
CrawlStartsDuringTail ==
    /\ job.pc \in TailStages
    /\ JobNext
    /\ job'.batches = job.batches + 1
    /\ job'.batch_start = job.batch_start

\* C22: in hybrid mode the crawl of batch k+1 can start while the tail
\* stages (chunk, embed, store) of batch k are still running: whenever the
\* tail of a batch is running and a further batch remains, a step that
\* starts the next crawl without ending that tail is possible.
C22_CrawlOverlapsTail ==
    (Hybrid /\ job.pc \in TailStages
       /\ ~job.cancel_event /\ ~job.must_cancel
       /\ job.batch_start + HYBRID_PROCESS_BATCH < ctx.n)
    => ENABLED CrawlStartsDuringTail

\* The hybrid loop is one coroutine: in no state at all can the next crawl
\* start before the tail of the current batch has ended.
C22_Sequential == ~ENABLED CrawlStartsDuringTail

\* C23: for any document and valid (chunk_size, chunk_overlap), the
\* [start_char, end_char) ranges of the chunks chunk_text returns cover
\* every non-whitespace character position of the document, on the plain
\* path and on the markdown path with fenced code blocks.
C23_ChunksCoverDocument ==
    chk.pc = "returned" =>
        \A i \in 0..(Len(chk.text) - 1) :
            chk.text[i + 1] \notin Whitespace =>
                \E k \in 1..Len(chk.chunks) :
                    chk.chunks[k].start_char <= i /\ i < chk.chunks[k].end_char

\* The same on the plain path alone (no fenced block in the text).
C23_PlainPathCovers ==
    ~is_markdown_with_code(chk.text) => C23_ChunksCoverDocument

\* ceil(n / EMBED_BATCH)
BatchesOf(n) == (n + EMBED_BATCH - 1) \div EMBED_BATCH

\* C24: unified parallel batching ends, for every chunk list, after exactly
\* max(ceil(n_text/B), ceil(n_code/B)) rounds with both queues empty; in
\* every round each model has at most one batch in flight, of at most B
\* chunks, the next B of its queue in input order.  After r rounds a queue
\* holds what is left of its chunks behind the first r*B, so every round
\* shortens the longer queue and the loop cannot run on.
C24_UnifiedRounds ==
    emb.strategy = "parallel" =>
        LET queue(m) == Select(emb.chunks, m, 1)
            left(m) == IF m = "gte" THEN emb.gte_queue ELSE emb.coderank_queue
            rounds == Max(BatchesOf(Len(queue("gte"))),
                          BatchesOf(Len(queue("coderank"))))
            r == emb.round_num
        IN  /\ emb.pc \in {"gather", "returned"}
            /\ r \in 1..rounds
            /\ \A m \in Hints :
                 /\ left(m) = Drop(queue(m), r * EMBED_BATCH)
                 /\ emb.pc = "gather" =>
                      /\ Len(emb.tasks[m].batch) <= EMBED_BATCH
                      /\ emb.tasks[m].batch =
                           SubSeq(queue(m), (r - 1) * EMBED_BATCH + 1,
                                  Min(r * EMBED_BATCH, Len(queue(m))))
                      /\ emb.tasks[m].result = "pending" =>
                           emb.tasks[m].batch # <<>>
            /\ emb.pc = "returned" =>
                 /\ r = rounds
                 /\ emb.gte_queue = <<>> /\ emb.coderank_queue = <<>>

\* A list of one text chunk and three code chunks was embedded in two
\* rounds, the second one with a CodeRank batch alone.
C24_Witness ==
    /\ emb.strategy = "parallel" /\ emb.pc = "returned"
    /\ Len(Select(emb.chunks, "gte", 1)) = 1
    /\ Len(Select(emb.chunks, "coderank", 1)) = 3
    /\ emb.round_num = 2

\* C25: _request_embeddings issues at most 3 requests for one batch: a
\* response ends it with no further request, it sleeps min(2^(n-1), 5)
\* seconds after failed attempt n < 3 and only then, and after the third
\* failure in a row it raises; the loop is bounded, so it always ends.
C25_BoundedRetries ==
    \A m \in Hints :
        LET c == emb.tasks[m]
        IN  c.result # "none" =>
              /\ c.requests <= 3
              /\ c.attempt \in 1..3
              /\ c.slept = [n \in 1..Len(c.slept) |-> Min(2 ^ (n - 1), 5)]
              /\ Len(c.slept) \in {c.requests - 1, c.requests} \cap 0..2
              /\ c.sleeping =>
                   c.result = "pending" /\ Len(c.slept) = c.requests
              /\ (c.result = "ok" /\ c.batch # <<>>) =>
                   Len(c.slept) = c.requests - 1
              /\ c.result = "exc" => c.requests = 3 /\ Len(c.slept) = 2
              /\ Len(c.acc) = Min(c.i, Len(c.batch))

\* A batch was answered at the third request, after sleeps of 1 and 2
\* seconds, while the other model's batch failed three times.
C25_Witness ==
    /\ emb.tasks["gte"].result = "ok" /\ emb.tasks["gte"].requests = 3
    /\ emb.tasks["gte"].slept = <<1, 2>>
    /\ emb.tasks["coderank"].result = "exc"

\* C26: crawl_single_page makes at most 3 fetch attempts, with cache modes
\* ENABLED, BYPASS, BYPASS in order; the first uses plain HTTP unless
\* prefer_browser or the documentation heuristic holds; every attempt after
\* a failed attempt or a plain-HTTP page shorter than 50 uses the browser
\* and none switches back; it returns the result of the first attempt that
\* is not escalated, and raises SinglePageError when three attempts gave
\* no result.
C26_SinglePageAttempts ==
    LET f == page.fetches
        n == Len(f)
    IN  /\ n <= 3
        /\ \A k \in 1..n :
             /\ f[k].cache_mode = <<"ENABLED", "BYPASS", "BYPASS">>[k]
             /\ f[k].use_browser =
                  (k > 1 \/ page.prefer_browser \/ page.doc_site)
             /\ k < n => f[k].outcome \in {"raised", "escalated"}
             /\ f[k].outcome = "escalated" => ~f[k].use_browser
        /\ page.pc = "returned" =>
             /\ n >= 1 /\ f[n].outcome = "returned"
             /\ page.result >= 50 \/ f[n].use_browser
        /\ page.pc = "SinglePageError" <=>
             /\ n = 3 /\ f[n].outcome \in {"raised", "escalated"}
             /\ page.pc \notin {"sleep", "CancelledError"}

\* The third attempt returned a page from the browser after a short
\* plain-HTTP page and a failed browser fetch.
C26_Witness ==
    /\ page.pc = "returned" /\ Len(page.fetches) = 3
    /\ page.fetches[1].outcome = "escalated"
    /\ page.fetches[2].outcome = "raised"
    /\ page.result < 50

\* C27: absent cancellation, whatever the interleaving of the per-URL
\* tasks, crawl_batch_with_progress calls the progress callback exactly
\* once per input URL, failed or not, always with total = len(urls), and
\* the done values are 1..len(urls), each exactly once.
C27_CallbackOncePerUrl ==
    ~bat.cancel_event =>
        /\ \A k \in 1..Len(bat.calls) :
             /\ bat.calls[k].total = bat.total
             /\ bat.calls[k].done = k
        /\ \A i \in DOMAIN bat.tasks :
             Cardinality({k \in 1..Len(bat.calls) : bat.calls[k].url = i})
               = IF bat.tasks[i] = "done" THEN 1 ELSE 0
        /\ bat.pc = "returned" =>
             /\ Len(bat.calls) = bat.total
             /\ \A i \in DOMAIN bat.tasks : bat.tasks[i] = "done"

\* Three URLs behind a semaphore of one were reported out of input order,
\* one of them failed.
C27_Witness ==
    /\ bat.pc = "returned" /\ ~bat.cancel_event
    /\ bat.total = 3
    /\ bat.calls[1].url = 3
    /\ Len(bat.results) = 2

\* C28: when discovery has fetched a robots.txt that declares a sitemap, it
\* probes the sitemap as a nested candidate and returns it if the probe
\* yields it; if the probe yields no file (blocked by the SSRF check, HTTP
\* error, status >= 400) the robots.txt itself is returned.  So the step
\* that ends the fetch of a served robots.txt either sends the nested
\* request or returns the robots.txt, and the step that ends a nested
\* probe returns the sitemap or the robots.txt.
C28_RobotsOrItsSitemap ==
    [][(AttemptDone /\ disc.frame.hops = 0) =>
         /\ (disc.frame.kind = "candidate" /\ is_robots_txt(disc.frame.url)
               /\ disc.frame.url.path \in disc.web) =>
              \/ disc'.pc = "get" /\ disc'.frame.kind = "nested"
                   /\ disc'.frame.outer = disc.frame.url
              \/ disc'.pc = "done" /\ disc'.found
                   /\ disc'.result = disc.frame.url
         /\ disc.frame.kind = "nested" =>
              /\ disc'.pc = "done" /\ disc'.found
              /\ disc'.result \in {disc.frame.url, disc.frame.outer}]_vars

C30_DatasetPerProject ==
    meta.last.project_id # "" =>
        /\ meta.last.error = "none"
        /\ \E r \in meta.datasets :
             /\ r.project_id = meta.last.project_id /\ r.name = meta.last.name
             /\ r.id = meta.last.id
        /\ \A r1, r2 \in meta.datasets :
             (r1.project_id = r2.project_id /\ r1.name = r2.name) \/ r1.id # r2.id
        /\ \A r1, r2 \in meta.datasets :
             (r1.project_id = r2.project_id /\ r1.name = r2.name) => r1 = r2
        /\ meta.last.existed => ~meta.last.inserted

\* The statuses a job ends in.
TerminalStatuses == {"completed", "cancelled", "failed"}

\* C31: a job's status is absorbing once terminal: after it is 'completed',
\* 'cancelled' or 'failed' no step changes it, a further _update_progress
\* call with a progress value leaves it, and cancel(id) on such a job
\* changes neither its status nor its progress.
C31_TerminalStatusAbsorbing ==
    [][job.status \in TerminalStatuses =>
         /\ job'.status = job.status
         /\ \A v \in 0..100 : UP(job, v).status = job.status
         /\ cancel(job).status = job.status
         /\ cancel(job).progress = job.progress
         /\ (job'.cancel_event /\ ~job.cancel_event) =>
                job'.progress = job.progress]_vars

\* cancel(id) was called on a job only after it had completed.
C31_Witness ==
    /\ job.status = "completed" /\ job.pc = "done"
    /\ job.cancel_event /\ ~job.cancelled_running

\* C32: in every reachable state of the job 0 <= progress <= 100, status =
\* 'completed' implies progress = 100, and any other status implies
\* progress < 100.
C32_ProgressRange ==
    /\ job.progress \in 0..100
    /\ job.status = "completed" => job.progress = 100
    /\ job.status # "completed" => job.progress < 100

\* A job ended cancelled with its progress at 92 or more, below 100.
C32_Witness ==
    /\ job.status = "cancelled" /\ job.pc = "done"
    /\ job.progress >= 92 /\ job.progress < 100

\* C33: the strategy the orchestrator runs is the one of the requested
\* mode: a job of mode recursive runs the recursive crawl, never the single
\* page fetch or the plain batch crawl, whatever the number of seeds and in
\* both processing modes.
C33_RecursiveModeRecurses ==
    ctx.mode = "recursive" => job.pc \notin {"s_single", "s_batch", "h_crawl"}

\* C34: within one recursive crawl no normalized URL is submitted to the
\* fetcher more than once: the batch a call of crawl_many receives holds no
\* URL that an earlier call of the same crawl received.
C34_SubmittedOnce ==
    [][rec'.batches = rec.batches + 1 =>
         rec'.stream \cap rec.submitted = {}]_vars

\* C35: discover_files of two jobs running concurrently on the shared
\* DiscoveryService gives each job the result it gets when it runs alone.
C35_DiscoveryAsAlone ==
    \A k \in Jobs :
        svc.calls[k].pc = "done" =>
            LET alone == Alone(NewDisc(svc.calls[k].urls, svc.calls[k].web))
            IN  /\ svc.calls[k].found = alone.found
                /\ svc.calls[k].result = alone.result

\* The pipeline can take no further step: no put or get can go on, no
\* request is pending and run() has not reached its return.
PipelineAtRest == pipe.pc # "idle" /\ ~ENABLED PipelineNext

\* C36: every page taken from the crawler stream ends up stored (appended
\* to completed_items exactly once) or recorded in errors: when the pipeline
\* has returned or can take no further step, no page is left in a queue or
\* with a suspended worker, and no page is in completed_items twice.
C36_NoPageStranded ==
    /\ \A i, k \in 1..Len(pipe.completed_items) :
         pipe.completed_items[i] = pipe.completed_items[k] => i = k
    /\ PipelineAtRest =>
         \A item \in 1..pipe.crawled :
            \/ \E i \in 1..Len(pipe.completed_items) : pipe.completed_items[i] = item
            \/ item \in pipe.errors

\* C37: run() terminates for every finite crawler stream and every
\* configured worker count: the pipeline comes to rest only by returning,
\* with every worker out of its loop.
C37_RunTerminates ==
    PipelineAtRest =>
        /\ pipe.pc = "returned"
        /\ pipe.chunk_exit = CHUNK_WORKERS
        /\ pipe.embed_exit = EMBED_WORKERS
        /\ pipe.store_exit = STORE_WORKERS

\* A known phase: one of PHASE_RANGES.
KnownPhase(phase) == phase \in DOMAIN PHASE_RANGES

\* C38: over any sequence of map_progress calls on one mapper the returned
\* values never decrease; a call with a known phase (start, end) and no
\* force_value returns
\* max(previous, start + floor(clamp(p, 0, 100) * (end - start) / 100));
\* a call with an unknown phase (and no force_value) returns the previous
\* value and leaves the mapper as it was.
C38_MapProgress ==
    \A c \in {mapper.call[i] : i \in DOMAIN mapper.call} :
        /\ c.before.returned # NoValue => mapper.returned[1] >= c.before.returned[1]
        /\ (c.force_value = NoValue /\ KnownPhase(c.phase)) =>
             mapper.returned[1] =
                Max(c.before.last_overall_progress,
                    PHASE_RANGES[c.phase][1]
                      + (Max(0, Min(100, c.phase_progress))
                           * (PHASE_RANGES[c.phase][2] - PHASE_RANGES[c.phase][1]))
                        \div 100)
        /\ (c.force_value = NoValue /\ ~KnownPhase(c.phase)) =>
             /\ mapper.returned[1] = c.before.last_overall_progress
             /\ mapper.last_overall_progress = c.before.last_overall_progress
             /\ mapper.current_phase = c.before.current_phase

====
